---- MODULE Spec2Model ----
(***************************************************************************)
(* The request pipeline of AgentMemClient (sdks/python/agentmem/client.py): *)
(* the TTL cache, the retry loop of _make_request with its status dispatch *)
(* and exponential backoff, and the connection handle.                      *)
(*                                                                          *)
(* Time is counted in whole units of time.time(); retry_delay and cache_ttl *)
(* are taken in the same units.  One call of _make_request is in progress   *)
(* at a time; it is suspended at `await client.request` (pc = "request")    *)
(* and at `await asyncio.sleep` (pc = "sleep").                             *)
(***************************************************************************)
EXTENDS Integers, Sequences, FiniteSets, TLC

\* ------------------------------------------------------------ bounds
\* Largest max_retries a configuration is drawn with.
MaxRetries == 2
\* time.time() values at which a call may start (the clock is driven by Tick).
MaxTime == 2
\* Number of _make_request calls a behaviour of Spec makes.
MaxCalls == 1
\* Number of _make_request calls a behaviour of CacheSpec makes.
MaxCacheCalls == 2
\* Number of _make_request calls a behaviour of LifecycleSpec makes.
MaxLifeCalls == 2
\* Number of close() calls (direct or by __aexit__) a behaviour makes.
MaxCloses == 2

\* ------------------------------------------------------------ values
None == "None"

\* retry_delay and cache_ttl values a configuration is drawn with.
RetryDelays == {0, 1, 2}
CacheTtls == {1, 2}

\* A params dict is the sequence of its (name, value) items in insertion order:
\* {a:1, b:2} and {b:2, a:1}.
ParamsAB == << <<"a", 1>>, <<"b", 2>> >>
ParamsBA == << <<"b", 2>>, <<"a", 1>> >>

\* Python's order on the parameter names used.
Rank == [a |-> 1, b |-> 2]

\* Status codes a response may carry.
Statuses == {200, 204, 400, 401, 403, 404, 429, 500, 503}

\* Statuses whose body the dispatch reads.
BodyStatuses == {200, 400, 500}

\* Response bodies: no content, content that is not JSON, JSON null, a JSON
\* object with a "message" member, a JSON object without one.
Bodies == {"", "<html>", "null", "{message:bad,id:m1}", "{id:m2}"}

\* Transport-level failures (subclasses of httpx.RequestError).
RequestErrors == {"ConnectError", "ReadTimeout"}

\* Responses received: every body for the statuses whose body is read, an
\* empty body for the others.
Responses ==
    [status : BodyStatuses, body : Bodies]
    \cup [status : Statuses \ BodyStatuses, body : {""}]

VARIABLES
    config,            \* self.config (validated at construction)
    client,            \* self._client: None or the AsyncClient
    session_created,   \* self._session_created
    cache,             \* self._cache: key -> value
    cache_timestamps,  \* self._cache_timestamps: key -> time.time() at insertion
    now,               \* time.time()
    pc,                \* "idle", "request", "sleep" or "done"
    req,               \* arguments of the call in progress (or of the last call)
    attempt,           \* the loop variable of `for attempt in range(...)`
    last_exception,    \* the local last_exception
    outcome,           \* how the last call ended: returned value or raised exception
    attempts,          \* history: client.request invocations of this call
    sleeps,            \* history: delays passed to asyncio.sleep by this call
    log,               \* history: what each completed attempt of this call received
    started,           \* history: time.time() when each attempt of this call was issued
    calls,             \* history: number of calls made
    lastOK,            \* history: key -> value, time and request of the last 200
                       \*   result returned to a GET with use_cache=True
    created,           \* history: httpx.AsyncClient objects constructed
    closed,            \* history: httpx.AsyncClient objects closed (aclose)
    close_calls,       \* history: invocations of close()
    scope,             \* the `async with client` block: "none", "inside",
                       \*   "exited" (left normally) or "raised" (left by an exception)
    cancelled,         \* history: the caller's task was cancelled during this call
    validations,       \* history: invocations of config.validate()
    tools,             \* ToolExecutor._tools: name -> schema
    handlers,          \* ToolExecutor._handlers: name -> handler
    execution,         \* the ToolExecution returned by the last execute()
    invoked,           \* history: handler invocations made by the last execute()
    removed,           \* history: names a call of unregister_tool has removed
    escaped,           \* the exception that left the last execute(), if one did
    ended,             \* history: how the handler invocation of the last execute()
                       \*   ended: "none" (not invoked), "returned", "raised" or
                       \*   "cancelled" (by the timeout)
    executed,          \* history: the arguments of the last execute()
    returned,          \* the last call of a registry method and what it returned:
                       \*   ok of unregister_tool, found of get_tool (None is
                       \*   <<>>, a schema s is <<s>>), list of list_tools
    sent,              \* history: the json bodies handed to client.request, each
                       \*   with the call that sent it (a request without a
                       \*   body leaves no entry)
    counters,          \* MetricsCollector._counters: key -> value
    gauges,            \* MetricsCollector._gauges: key -> value
    histograms,        \* MetricsCollector._histograms: key -> list of samples
    start_time,        \* MetricsCollector._start_time
    recorded,          \* history: the calls of increment, set_gauge,
                       \*   record_histogram and reset, in order
    completed,         \* history: the domain operations whose _make_request
                       \*   has ended, in order
    tasks,             \* the _make_request call of each concurrent task: its
                       \*   position, arguments and locals, with the handle
                       \*   its local `client` refers to
    released,          \* the AsyncClient objects that aclose() was called on,
                       \*   each named by its number in order of creation
    closing,           \* the handle a close() is awaiting the aclose() of, or 0
    issued             \* history: the client.request invocations of the tasks,
                       \*   each with its handle and whether that was open

\* variables added to the client's by its lifecycle and its construction
lifeVars == <<created, closed, close_calls, scope, cancelled, validations>>

\* the ToolExecutor's variables
toolVars == <<tools, handlers, execution, invoked, removed, escaped, ended,
              executed, returned>>

\* the MetricsCollector's variables
metricVars == <<counters, gauges, histograms, start_time, recorded>>

\* the variables of the concurrent tasks
taskVars == <<tasks, released, closing, issued>>

vars == <<config, client, session_created, cache, cache_timestamps, now, pc, req,
          attempt, last_exception, outcome, attempts, sleeps, log, started, calls,
          lastOK, lifeVars, toolVars, metricVars, taskVars, sent, completed>>

\* ------------------------------------------------------------ exceptions
\* types.py: every SDK exception derives from AgentMemError.
AgentMemErrors ==
    {"AgentMemError", "AuthenticationError", "ValidationError", "NetworkError",
     "NotFoundError", "RateLimitError", "ServerError"}

Exc(type, msg) == [type |-> type, msg |-> msg]

\* last_exception = None
NoException == Exc(None, <<>>)

IsAgentMemError(e) == e.type \in AgentMemErrors

\* ------------------------------------------------------------ JSON
\* response.content is non-empty
HasContent(body) == body # ""

\* response.json() succeeds (json.loads raises JSONDecodeError otherwise)
Decodable(body) ==
    body \in {"null", "{message:bad,id:m1}", "{id:m2}",
              "{id:m1,content:old}", "{id:m1,content:new}"}

\* the value response.json() returns for a decodable body
Json(body) == IF body = "null" THEN None ELSE body

IsDict(v) ==
    v \in {"{message:bad,id:m1}", "{id:m2}",
           "{id:m1,content:old}", "{id:m1,content:new}"}

\* error_data.get('message', 'Unknown error')
GetMessage(v) == IF v = "{message:bad,id:m1}" THEN "bad" ELSE "Unknown error"

\* ------------------------------------------------------------ cache key
RECURSIVE Insert(_, _)
Insert(item, sorted) ==
    IF sorted = <<>> THEN <<item>>
    ELSE IF Rank[item[1]] <= Rank[Head(sorted)[1]] THEN <<item>> \o sorted
    ELSE <<Head(sorted)>> \o Insert(item, Tail(sorted))

\* json.dumps(params, sort_keys=True): the items in the order of their names
RECURSIVE Dumps(_)
Dumps(params) ==
    IF params = <<>> THEN <<>> ELSE Insert(Head(params), Dumps(Tail(params)))

\* A memory id whose text is "stats", a "|" and the dump of the parameters of
\* get_memory_stats("a1"), and the path of that memory.
StatsLikeId == "stats|{agent_id:a1}"
StatsLikePath == "/memories/stats|{agent_id:a1}"

\* text.split("|"): a string is the sequence of its pieces between "|"
\* characters, and "|".join(parts) is the string whose pieces are those of the
\* parts, in order. The dump of a dict stands as one piece.
Split(text) ==
    IF text = StatsLikePath
    THEN <<"/memories/stats", Dumps(<< <<"agent_id", "a1">> >>)>>
    ELSE <<text>>

\* Mutant: json.dumps without sort_keys.
GetCacheKey_Unsorted(method, url, params) ==
    IF params # <<>> THEN <<method>> \o Split(url) \o <<params>>
    ELSE <<method>> \o Split(url)

\* _get_cache_key: "|".join of method, url and, for non-empty params, the dump
GetCacheKey(method, url, params) ==
    IF params # <<>> THEN <<method>> \o Split(url) \o <<Dumps(params)>>
    ELSE <<method>> \o Split(url)

\* ------------------------------------------------------------ TTL cache
\* Mutant: an entry of age exactly cache_ttl still counts as valid.
IsCacheValid_Inclusive(key) ==
    IF key \notin DOMAIN cache_timestamps THEN FALSE
    ELSE now - cache_timestamps[key] <= config.cache_ttl

\* _is_cache_valid
IsCacheValid(key) ==
    IF key \notin DOMAIN cache_timestamps THEN FALSE
    ELSE now - cache_timestamps[key] < config.cache_ttl

\* dict.pop(key, None)
Pop(d, key) == [k \in DOMAIN d \ {key} |-> d[k]]

\* d[key] = value
Put(d, key, value) == [k \in DOMAIN d \cup {key} |-> IF k = key THEN value ELSE d[k]]

\* the value _get_cache returns
GetCacheValue(key) ==
    IF ~config.enable_caching THEN None
    ELSE IF IsCacheValid(key)
         THEN (IF key \in DOMAIN cache THEN cache[key] ELSE None)
    ELSE None

\* Mutant: a hit renews the entry's timestamp.
GetCacheMaps_Touch(key) ==
    IF config.enable_caching /\ ~IsCacheValid(key)
    THEN <<Pop(cache, key), Pop(cache_timestamps, key)>>
    ELSE IF config.enable_caching
    THEN <<cache, Put(cache_timestamps, key, now)>>
    ELSE <<cache, cache_timestamps>>

\* Mutant: the eviction pops the value and leaves the timestamp.
GetCacheMaps_ValueOnly(key) ==
    IF config.enable_caching /\ ~IsCacheValid(key)
    THEN <<Pop(cache, key), cache_timestamps>>
    ELSE <<cache, cache_timestamps>>

\* the two maps after _get_cache: an expired or absent key is popped from both
GetCacheMaps(key) ==
    IF config.enable_caching /\ ~IsCacheValid(key)
    THEN <<Pop(cache, key), Pop(cache_timestamps, key)>>
    ELSE <<cache, cache_timestamps>>

\* Mutant: _set_cache without the enable_caching test.
SetCacheMaps_Always(key, value) ==
    <<Put(cache, key, value), Put(cache_timestamps, key, now)>>

\* the two maps after _set_cache
SetCacheMaps(key, value) ==
    IF config.enable_caching
    THEN <<Put(cache, key, value), Put(cache_timestamps, key, now)>>
    ELSE <<cache, cache_timestamps>>

\* ------------------------------------------------------------ status dispatch
Returned(v) == [kind |-> "return", value |-> v]
Raised(e) == [kind |-> "raise", exc |-> e]

\* no call has ended yet, or the call is still in progress
NoOutcome == [kind |-> "none"]

\* no call has been made yet
NoRequest == [method |-> None, endpoint |-> None, params |-> <<>>, use_cache |-> FALSE]

\* error_data = response.json() if response.content else {}, then the raise of
\* `make(message)`; json() and .get() may raise instead
WithErrorData(body, type, prefix) ==
    IF ~HasContent(body) THEN Raised(Exc(type, <<prefix, "Unknown error">>))
    ELSE IF ~Decodable(body) THEN Raised(Exc("JSONDecodeError", <<body>>))
    ELSE IF ~IsDict(Json(body)) THEN Raised(Exc("AttributeError", <<"get">>))
    ELSE Raised(Exc(type, <<prefix, GetMessage(Json(body))>>))

\* the if/elif chain on response.status_code inside the try block
HandleResponse(status, body) ==
    IF status = 200 THEN
        (IF Decodable(body) THEN Returned(Json(body))
         ELSE Raised(Exc("JSONDecodeError", <<body>>)))
    ELSE IF status = 401 THEN
        Raised(Exc("AuthenticationError", <<"Invalid API key or authentication failed">>))
    ELSE IF status = 400 THEN
        WithErrorData(body, "ValidationError", "Request validation failed: ")
    ELSE IF status = 404 THEN Raised(Exc("NotFoundError", <<"Resource not found">>))
    ELSE IF status = 429 THEN Raised(Exc("RateLimitError", <<"Rate limit exceeded">>))
    ELSE IF status >= 500 THEN WithErrorData(body, "ServerError", "Server error: ")
    ELSE Raised(Exc("AgentMemError", <<"Unexpected status code: ", ToString(status)>>))

\* Mutant: the except clause is broad enough to catch a cancellation.
CaughtForRetry_CancelledToo(type) == type \in RequestErrors \cup {"CancelledError"}

\* Mutant: a server error is retried like a transport failure.
CaughtForRetry_ServerErrorToo(type) == type \in RequestErrors \cup {"ServerError"}

\* `except httpx.RequestError`: the exception types that clause catches
CaughtForRetry(type) == type \in RequestErrors

\* Mutant: one retry more than max_retries.
RetryAllowed_OneMore(i) == i <= config.max_retries

\* Mutant: the last allowed retry is not made.
RetryAllowed_OneLess(i) == i < config.max_retries - 1

\* `if attempt < self.config.max_retries` (else: break)
RetryAllowed(i) == i < config.max_retries

\* Mutant: every sleep lasts retry_delay.
Backoff_Constant(i) == config.retry_delay

\* Mutant: the exponent is one too large.
Backoff_ExponentPlusOne(i) == config.retry_delay * (2 ^ (i + 1))

\* delay = self.config.retry_delay * (2 ** attempt)
Backoff(i) == config.retry_delay * (2 ^ i)

\* after the loop: raise last_exception, or the fall-through error
AfterLoop(last) ==
    IF last # NoException THEN Raised(last)
    ELSE Raised(Exc("AgentMemError", <<"Request failed after all retries">>))

\* ------------------------------------------------------------ state
\* Validated configurations (Config.validate: max_retries >= 0, retry_delay >= 0,
\* cache_ttl > 0) for the retry loop and the status dispatch.
Configs ==
    [max_retries : 0..MaxRetries, retry_delay : RetryDelays,
     enable_caching : BOOLEAN, cache_ttl : {1}]

\* Validated configurations for the cache.
CacheConfigs ==
    [max_retries : {0, 1}, retry_delay : {1},
     enable_caching : BOOLEAN, cache_ttl : CacheTtls]

Request(method, endpoint, params, use_cache) ==
    [method |-> method, endpoint |-> endpoint, params |-> params,
     use_cache |-> use_cache]

\* Calls of Spec: a read of one memory, cached or not, and a write.
Requests ==
    { Request("GET", "/memories/m1", <<>>, TRUE),
      Request("GET", "/memories/m1", <<>>, FALSE),
      Request("POST", "/memories", <<>>, FALSE) }

\* Calls of CacheSpec: the same parameters in both insertion orders, a read of
\* one memory with and without use_cache, and a write asking for the cache.
CacheRequests ==
    { Request("GET", "/memories/stats", ParamsAB, TRUE),
      Request("GET", "/memories/stats", ParamsBA, TRUE),
      Request("GET", "/memories/m1", <<>>, TRUE),
      Request("GET", "/memories/m1", <<>>, FALSE),
      Request("POST", "/memories/m1", <<>>, TRUE) }

\* Responses of CacheSpec.
CacheResponses ==
    [status : {200}, body : {"<html>", "null", "{message:bad,id:m1}", "{id:m2}"}]
    \cup [status : {404, 500}, body : {""}]

EmptyMap == [k \in {} |-> None]

\* no execute() has returned yet
NoExecution == [status |-> None]

\* no method has been called yet
NoCall == [op |-> None]

\* MetricsCollector.__init__
MetricsInit ==
    /\ counters = EmptyMap
    /\ gauges = EmptyMap
    /\ histograms = EmptyMap
    /\ start_time = 0
    /\ recorded = <<>>

\* ToolExecutor.__init__
ToolInit ==
    /\ tools = EmptyMap
    /\ handlers = EmptyMap
    /\ execution = NoExecution
    /\ invoked = 0
    /\ removed = {}
    /\ escaped = NoException
    /\ ended = "none"
    /\ executed = NoCall
    /\ returned = NoCall

\* Bound on the tasks that share one client.
MaxTasks == 2

Tasks == 1..MaxTasks

\* the local `client` of a task that is not inside _make_request
NoHandle == 0

\* a task that is not inside _make_request
IdleTask ==
    [pc |-> "idle", req |-> NoRequest, attempt |-> 0,
     last_exception |-> NoException, outcome |-> NoOutcome, handle |-> NoHandle]

\* no task has called the client yet
TasksInit ==
    /\ tasks = [t \in Tasks |-> IdleTask]
    /\ released = {}
    /\ closing = NoHandle
    /\ issued = {}

InitWith(configs) ==
    /\ config \in configs
    /\ client = None
    /\ session_created = FALSE
    /\ cache = EmptyMap
    /\ cache_timestamps = EmptyMap
    /\ now = 0
    /\ pc = "idle"
    /\ req = NoRequest
    /\ attempt = 0
    /\ last_exception = NoException
    /\ outcome = NoOutcome
    /\ attempts = 0
    /\ sleeps = <<>>
    /\ log = <<>>
    /\ started = <<>>
    /\ calls = 0
    /\ lastOK = EmptyMap
    /\ created = 0
    /\ closed = 0
    /\ close_calls = 0
    /\ scope = "none"
    /\ cancelled = FALSE
    /\ validations = 1
    /\ ToolInit
    /\ sent = <<>>
    /\ completed = <<>>
    /\ MetricsInit
    /\ TasksInit

Init == InitWith(Configs)

CacheInit == InitWith(CacheConfigs)

\* Mutant: every request reads and writes the cache.
CacheEligible_Always(r) == TRUE

\* `method == "GET" and use_cache`
CacheEligible(r) == r.method = "GET" /\ r.use_cache

KeyOf(r) == GetCacheKey(r.method, r.endpoint, r.params)

\* client.request(..., json=data): the body goes out with the attempt
Sent(r, call) ==
    IF "data" \in DOMAIN r
    THEN Append(sent, [json |-> r.data, by |-> r, call |-> call])
    ELSE sent

\* Mutant: a new AsyncClient is created for every request.
GetClient_AlwaysNew ==
    client' = "AsyncClient" /\ session_created' = TRUE /\ created' = created + 1

\* _get_client: create the AsyncClient on first use
GetClient ==
    IF client = None
    THEN client' = "AsyncClient" /\ session_created' = TRUE /\ created' = created + 1
    ELSE UNCHANGED <<client, session_created, created>>

\* _make_request up to its first suspension: _get_client, the cache lookup,
\* and on a miss the first client.request of the retry loop
Call(r) ==
    /\ pc = "idle"
    /\ now <= MaxTime
    /\ calls' = calls + 1
    /\ req' = r
    /\ GetClient
    /\ sleeps' = <<>>
    /\ log' = <<>>
    /\ attempt' = 0
    /\ last_exception' = NoException
    /\ LET cached == IF CacheEligible(r) THEN GetCacheValue(KeyOf(r)) ELSE None
           maps == IF CacheEligible(r) THEN GetCacheMaps(KeyOf(r))
                   ELSE <<cache, cache_timestamps>>
       IN /\ cache' = maps[1]
          /\ cache_timestamps' = maps[2]
          /\ IF cached # None
             THEN /\ pc' = "done"
                  /\ outcome' = Returned(cached)
                  /\ attempts' = 0
                  /\ started' = <<>>
             ELSE /\ pc' = "request"
                  /\ outcome' = NoOutcome
                  /\ attempts' = 1
                  /\ started' = <<now>>
    /\ sent' = IF pc' = "request" THEN Sent(r, calls') ELSE sent
    /\ cancelled' = FALSE
    /\ UNCHANGED <<config, now, lastOK, closed, close_calls, scope, validations,
                   toolVars, metricVars, taskVars, completed>>

\* the exception leaves _make_request
Propagate(e) ==
    /\ pc' = "done"
    /\ outcome' = Raised(e)
    /\ UNCHANGED <<attempt, last_exception, sleeps>>

\* the body of `except httpx.RequestError as e`
OnRequestError(e) ==
    /\ last_exception' = Exc("NetworkError", <<"Network error: ">> \o e.msg)
    /\ IF RetryAllowed(attempt)
       THEN /\ sleeps' = Append(sleeps, Backoff(attempt))
            /\ pc' = "sleep"
            /\ outcome' = NoOutcome
            /\ UNCHANGED attempt
       ELSE /\ pc' = "done"
            /\ outcome' = AfterLoop(last_exception')
            /\ UNCHANGED <<attempt, sleeps>>

\* an exception raised inside the try block
OnException(e) ==
    IF CaughtForRetry(e.type) THEN OnRequestError(e) ELSE Propagate(e)

\* client.request returns a response: the status dispatch
Respond(status, body) ==
    /\ pc = "request"
    /\ log' = Append(log, [status |-> status, body |-> body])
    /\ LET h == HandleResponse(status, body)
           maps == IF h.kind = "return" /\ CacheEligible(req)
                   THEN SetCacheMaps(KeyOf(req), h.value)
                   ELSE <<cache, cache_timestamps>>
       IN /\ cache' = maps[1]
          /\ cache_timestamps' = maps[2]
          /\ lastOK' = IF h.kind = "return" /\ CacheEligible(req)
                       THEN Put(lastOK, KeyOf(req),
                                [value |-> h.value, at |-> now, by |-> req])
                       ELSE lastOK
          /\ IF h.kind = "return"
             THEN /\ pc' = "done"
                  /\ outcome' = h
                  /\ UNCHANGED <<attempt, last_exception, sleeps>>
             ELSE OnException(h.exc)
    /\ UNCHANGED <<config, client, session_created, now, req, attempts, started,
                   calls, lifeVars, toolVars, metricVars, taskVars, sent, completed>>

\* client.request raises an httpx.RequestError (connection refused, DNS
\* failure, timeout)
TransportFails(e) ==
    /\ pc = "request"
    /\ log' = Append(log, [error |-> e])
    /\ OnException(Exc(e, <<e>>))
    /\ UNCHANGED <<config, client, session_created, cache, cache_timestamps, now,
                   req, attempts, started, calls, lastOK, lifeVars, toolVars, metricVars, taskVars, sent, completed>>

\* asyncio.sleep(delay) returns: the next iteration issues client.request
Wake ==
    /\ pc = "sleep"
    /\ now' = now + sleeps[Len(sleeps)]
    /\ attempt' = attempt + 1
    /\ attempts' = attempts + 1
    /\ started' = Append(started, now')
    /\ pc' = "request"
    /\ sent' = Sent(req, calls)
    /\ UNCHANGED <<config, client, session_created, cache, cache_timestamps, req,
                   last_exception, outcome, sleeps, log, calls, lastOK, lifeVars,
                   toolVars, metricVars, taskVars, completed>>

\* A domain operation's _make_request has ended: its name, its endpoint, the
\* number of the call, whether it returned and after how many attempts.
Completed ==
    IF "op" \in DOMAIN req
    THEN Append(completed, [op |-> req.op, endpoint |-> req.endpoint,
                            call |-> calls, ok |-> outcome.kind = "return",
                            attempts |-> attempts])
    ELSE completed

\* the result or the exception reaches the caller; the call's frame is gone
Return ==
    /\ pc = "done"
    /\ pc' = "idle"
    /\ req' = NoRequest
    /\ attempt' = 0
    /\ last_exception' = NoException
    /\ outcome' = NoOutcome
    /\ attempts' = 0
    /\ sleeps' = <<>>
    /\ log' = <<>>
    /\ started' = <<>>
    /\ cancelled' = FALSE
    /\ completed' = Completed
    /\ UNCHANGED <<config, client, session_created, cache, cache_timestamps, now,
                   calls, lastOK, created, closed, close_calls, scope, validations,
                   toolVars, metricVars, taskVars, sent>>

\* time passes between calls
Tick ==
    /\ pc = "idle"
    /\ now < MaxTime
    /\ now' = now + 1
    /\ UNCHANGED <<config, client, session_created, cache, cache_timestamps, pc,
                   req, attempt, last_exception, outcome, attempts, sleeps, log,
                   started, calls, lastOK, lifeVars, toolVars, metricVars, taskVars, sent, completed>>

Next ==
    \/ calls < MaxCalls /\ \E r \in Requests : Call(r)
    \/ \E r \in Responses : Respond(r.status, r.body)
    \/ \E e \in RequestErrors : TransportFails(e)
    \/ Wake
    \/ Return
    \/ Tick

Spec == Init /\ [][Next]_vars

CacheNext ==
    \/ calls < MaxCacheCalls /\ \E r \in CacheRequests : Call(r)
    \/ \E r \in CacheResponses : Respond(r.status, r.body)
    \/ TransportFails("ConnectError")
    \/ Wake
    \/ Return
    \/ Tick

CacheSpec == CacheInit /\ [][CacheNext]_vars

\* ------------------------------------------------------------ lifecycle
\* the variables of a call in progress and of the cache
callVars == <<cache, cache_timestamps, now, pc, req, attempt, last_exception,
              outcome, attempts, sleeps, log, started, calls, lastOK>>

\* the body of close(): release the AsyncClient, if there is one
DoClose ==
    IF client # None
    THEN client' = None /\ session_created' = FALSE /\ closed' = closed + 1
    ELSE UNCHANGED <<client, session_created, closed>>

\* close(), called between requests
Close ==
    /\ pc = "idle"
    /\ close_calls < MaxCloses
    /\ close_calls' = close_calls + 1
    /\ DoClose
    /\ UNCHANGED <<config, callVars, created, scope, cancelled, validations,
                   toolVars, metricVars, taskVars, sent, completed>>

\* __aenter__: entering `async with client` returns the client
AEnter ==
    /\ pc = "idle"
    /\ scope = "none"
    /\ scope' = "inside"
    /\ UNCHANGED <<config, client, session_created, callVars, created, closed,
                   close_calls, cancelled, validations, toolVars, metricVars, taskVars, sent, completed>>

\* __aexit__: leaving the block, normally or by an exception, awaits close()
AExit(raised) ==
    /\ pc = "idle"
    /\ scope = "inside"
    /\ scope' = IF raised THEN "raised" ELSE "exited"
    /\ close_calls' = close_calls + 1
    /\ DoClose
    /\ UNCHANGED <<config, callVars, created, cancelled, validations, toolVars, metricVars, taskVars, sent, completed>>

CancelledError == Exc("CancelledError", <<>>)

\* the caller's task is cancelled while the call is suspended: CancelledError
\* is raised at `await client.request` (inside the try block) or at
\* `await asyncio.sleep` (inside the except clause)
Cancel ==
    /\ pc \in {"request", "sleep"}
    /\ cancelled' = TRUE
    /\ IF pc = "request" THEN OnException(CancelledError)
       ELSE Propagate(CancelledError)
    /\ UNCHANGED <<config, client, session_created, cache, cache_timestamps, now,
                   req, attempts, log, started, calls, lastOK, created, closed,
                   close_calls, scope, validations, toolVars, metricVars, taskVars, sent, completed>>

\* Validated configurations of LifecycleSpec.
LifeConfigs ==
    [max_retries : {0, 1}, retry_delay : {1}, enable_caching : BOOLEAN,
     cache_ttl : {2}]

\* Calls of LifecycleSpec: a cached read and a write.
LifeRequests ==
    { Request("GET", "/memories/m1", <<>>, TRUE),
      Request("POST", "/memories", <<>>, FALSE) }

\* Responses of LifecycleSpec.
LifeResponses ==
    { [status |-> 200, body |-> "{id:m2}"], [status |-> 500, body |-> ""] }

LifecycleInit == InitWith(LifeConfigs)

LifecycleNext ==
    \/ calls < MaxLifeCalls /\ \E r \in LifeRequests : Call(r)
    \/ \E r \in LifeResponses : Respond(r.status, r.body)
    \/ TransportFails("ConnectError")
    \/ Wake
    \/ Return
    \/ Close
    \/ AEnter
    \/ \E raised \in BOOLEAN : AExit(raised)
    \/ Cancel

LifecycleSpec == LifecycleInit /\ [][LifecycleNext]_vars

\* ============================================================ properties
\* what an attempt received: a response, or a transport failure
IsResponse(x) == "status" \in DOMAIN x

LastReceived == log[Len(log)]

\* every attempt of the call so far failed at the transport level
AllFailed == log # <<>> /\ \A i \in 1..Len(log) : ~IsResponse(log[i])

RECURSIVE SumSeq(_)
SumSeq(q) == IF q = <<>> THEN 0 ELSE Head(q) + SumSeq(Tail(q))

NotRetriedStatuses == {s \in Statuses : s \in {401, 400, 404, 429} \/ s >= 500}

\* C1: once an attempt has received a response with status 401, 400, 404, 429
\* or >= 500, the call has ended at that attempt: every attempt issued has
\* completed (no further transport attempt), no backoff sleep was started after
\* it, and when it was the first attempt exactly one attempt was made.
C1_NoRetryOnStatus ==
    (log # <<>> /\ IsResponse(LastReceived)
        /\ LastReceived.status \in NotRetriedStatuses)
    => /\ pc = "done"
       /\ outcome.kind = "raise"
       /\ attempts = Len(log)
       /\ Len(sleeps) = Len(log) - 1
       /\ (Len(log) = 1 => attempts = 1)

\* a 5xx response on the first attempt ended the call although retries remained
C1_Witness ==
    /\ pc = "done"
    /\ Len(log) = 1
    /\ IsResponse(LastReceived)
    /\ LastReceived.status >= 500
    /\ config.max_retries = MaxRetries
    /\ attempts = 1
    /\ sleeps = <<>>

\* C2: a call all of whose attempts failed at the transport level never makes
\* more than max_retries + 1 attempts, and when it ends it has made exactly
\* max_retries + 1 and raises NetworkError carrying the last attempt's failure.
C2_NetworkErrorAfterBudget ==
    AllFailed
    => /\ attempts <= config.max_retries + 1
       /\ (pc = "done"
            => /\ attempts = config.max_retries + 1
               /\ Len(log) = config.max_retries + 1
               /\ outcome = Raised(Exc("NetworkError",
                                       <<"Network error: ", LastReceived.error>>)))

\* three attempts failed, the first and the last in different ways
C2_Witness ==
    /\ pc = "done"
    /\ AllFailed
    /\ config.max_retries = 2
    /\ attempts = 3
    /\ log[1].error # log[3].error
    /\ outcome.exc.type = "NetworkError"

\* C4: the i-th sleep of a call (i from 0) lasts retry_delay * 2^i and lies
\* between attempt i and attempt i+1; there is no sleep before the first attempt
\* nor after the last failed one, so a call that exhausts its budget has slept
\* retry_delay * (2^max_retries - 1) in total.
C4_ExponentialBackoff ==
    /\ \A i \in 1..Len(sleeps) : sleeps[i] = config.retry_delay * (2 ^ (i - 1))
    /\ \A i \in 2..Len(started) :
          started[i] - started[i - 1] = config.retry_delay * (2 ^ (i - 2))
    /\ Len(sleeps) <= config.max_retries
    /\ (pc = "request" => Len(sleeps) = attempts - 1)
    /\ (pc = "sleep" => Len(sleeps) = attempts /\ attempts <= config.max_retries)
    /\ (pc = "done" => Len(sleeps) = Len(log) - 1 \/ attempts = 0)
    /\ (pc = "done" /\ AllFailed
          => SumSeq(sleeps) = config.retry_delay * (2 ^ config.max_retries - 1))

\* an exhausted call that slept twice, for 2 and then 4
C4_Witness ==
    /\ pc = "done"
    /\ AllFailed
    /\ config.retry_delay = 2
    /\ sleeps = <<2, 4>>
    /\ started[3] - started[1] = 6

\* C3: the outcome of a call that ended on a response is the one its status
\* stands for: 200 returns the decoded body and raises no classified error, 401
\* AuthenticationError, 400 ValidationError, 404 NotFoundError, 429
\* RateLimitError, >= 500 ServerError, any other status the base AgentMemError.
C3_StatusMapping ==
    (pc = "done" /\ log # <<>> /\ IsResponse(LastReceived))
    => LET s == LastReceived.status
           b == LastReceived.body
           raises(t) == outcome.kind = "raise" /\ outcome.exc.type = t
       IN  IF s = 200
           THEN /\ Decodable(b) => outcome = Returned(Json(b))
                /\ ~(outcome.kind = "raise" /\ IsAgentMemError(outcome.exc))
           ELSE IF s = 401 THEN raises("AuthenticationError")
           ELSE IF s = 400 THEN raises("ValidationError")
           ELSE IF s = 404 THEN raises("NotFoundError")
           ELSE IF s = 429 THEN raises("RateLimitError")
           ELSE IF s >= 500 THEN raises("ServerError")
           ELSE raises("AgentMemError")

\* C8: whatever a call raises is an AgentMemError or one of its subclasses.
C8_OnlyClassifiedErrors ==
    (pc = "done" /\ outcome.kind = "raise") => IsAgentMemError(outcome.exc)

\* C9: a call that has ended has ended in one of three ways: with a returned
\* result (a cache hit or a 200 response), with a non-retryable classified
\* error raised at the attempt that received the response, or with NetworkError
\* after max_retries + 1 attempts.
C9_ThreeWaysToEnd ==
    pc = "done"
    => \/ /\ outcome.kind = "return"
          /\ \/ attempts = 0
             \/ log # <<>> /\ IsResponse(LastReceived) /\ LastReceived.status = 200
       \/ /\ outcome.kind = "raise"
          /\ outcome.exc.type \in AgentMemErrors \ {"NetworkError"}
          /\ log # <<>> /\ IsResponse(LastReceived)
          /\ attempts = Len(log)
       \/ /\ outcome.kind = "raise"
          /\ outcome.exc.type = "NetworkError"
          /\ attempts = config.max_retries + 1

\* the call has just been made and nothing has been received yet
JustCalled == pc \in {"request", "done"} /\ log = <<>>

\* C5: with caching enabled, a cache-eligible GET made less than cache_ttl after
\* an identical call returned a 200 result returns that result and issues no
\* transport attempt.
C5_HitWithinTtl ==
    (/\ config.enable_caching
     /\ JustCalled
     /\ CacheEligible(req)
     /\ KeyOf(req) \in DOMAIN lastOK
     /\ now - lastOK[KeyOf(req)].at < config.cache_ttl)
    => /\ pc = "done"
       /\ attempts = 0
       /\ outcome = Returned(lastOK[KeyOf(req)].value)

\* the step is the cache lookup of a call for key k with caching enabled
LookupOf(k) ==
    /\ pc = "idle" /\ pc' # "idle"
    /\ config.enable_caching
    /\ CacheEligible(req')
    /\ k = KeyOf(req')

C6_Step ==
    \A k \in DOMAIN cache :
       /\ (LookupOf(k) /\ now - cache_timestamps[k] >= config.cache_ttl)
            => /\ k \notin DOMAIN cache'
               /\ k \notin DOMAIN cache_timestamps'
               /\ pc' = "request"
               /\ attempts' = 1
       /\ (LookupOf(k) /\ now - cache_timestamps[k] < config.cache_ttl)
            => /\ GetCacheValue(k) = cache[k]
               /\ k \in DOMAIN cache' /\ cache'[k] = cache[k]
               /\ k \in DOMAIN cache_timestamps'
               /\ cache_timestamps'[k] = cache_timestamps[k]
               /\ (cache[k] # None
                     => pc' = "done" /\ attempts' = 0
                        /\ outcome' = Returned(cache[k]))
       /\ (k \notin DOMAIN cache')
            => LookupOf(k) /\ now - cache_timestamps[k] >= config.cache_ttl

\* C6: a lookup of an entry of age >= cache_ttl is a miss that removes the
\* entry and issues a transport attempt; a lookup of an entry of age < cache_ttl
\* returns the stored value and leaves the entry as it is; an entry is removed
\* by nothing else.
C6_LazyExpiry == [][C6_Step]_vars

\* an entry was looked up at age exactly cache_ttl and is gone
C6_Witness ==
    /\ config.enable_caching
    /\ pc = "request" /\ log = <<>>
    /\ CacheEligible(req)
    /\ KeyOf(req) \in DOMAIN lastOK
    /\ now - lastOK[KeyOf(req)].at = config.cache_ttl
    /\ KeyOf(req) \notin DOMAIN cache

\* the same (name, value) items, in any insertion order
SameItems(p, q) ==
    /\ Len(p) = Len(q)
    /\ {p[i] : i \in 1..Len(p)} = {q[i] : i \in 1..Len(q)}

\* C7: _get_cache_key gives one key to parameter dicts holding the same items
\* in any insertion order; within the TTL the cache lookup of a request whose
\* parameters hold the same items as those of the request that stored a result,
\* in any order, yields that result, and the call returns it (a result other
\* than None) without a transport attempt.
C7_KeyOrderInsensitive ==
    /\ \A p, q \in {ParamsAB, ParamsBA} :
          GetCacheKey("GET", "/memories/stats", p)
             = GetCacheKey("GET", "/memories/stats", q)
    /\ \A k \in DOMAIN lastOK : \A r \in CacheRequests :
          (/\ config.enable_caching
           /\ CacheEligible(r)
           /\ lastOK[k].by.method = r.method
           /\ lastOK[k].by.endpoint = r.endpoint
           /\ SameItems(lastOK[k].by.params, r.params)
           /\ now - lastOK[k].at < config.cache_ttl)
          => GetCacheValue(KeyOf(r)) = lastOK[k].value
    /\ \A k \in DOMAIN lastOK :
          (/\ config.enable_caching
           /\ JustCalled
           /\ CacheEligible(req)
           /\ lastOK[k].by.method = req.method
           /\ lastOK[k].by.endpoint = req.endpoint
           /\ SameItems(lastOK[k].by.params, req.params)
           /\ lastOK[k].value # None
           /\ now - lastOK[k].at < config.cache_ttl)
          => /\ pc = "done"
             /\ attempts = 0
             /\ outcome = Returned(lastOK[k].value)

\* a result stored by a request with {a:1, b:2} was served to one with {b:2, a:1}
C7_Witness ==
    /\ pc = "done" /\ attempts = 0
    /\ req.params = ParamsBA
    /\ KeyOf(req) \in DOMAIN lastOK
    /\ lastOK[KeyOf(req)].by.params = ParamsAB
    /\ outcome = Returned(lastOK[KeyOf(req)].value)

\* key k has a value or a timestamp after the step that it had not before
GainsOrChanges(k) ==
    \/ k \in DOMAIN cache' /\ (k \notin DOMAIN cache \/ cache'[k] # cache[k])
    \/ /\ k \in DOMAIN cache_timestamps'
       /\ (k \notin DOMAIN cache_timestamps
             \/ cache_timestamps'[k] # cache_timestamps[k])

C10_Step ==
    /\ \A k \in DOMAIN cache' \cup DOMAIN cache_timestamps' :
          GainsOrChanges(k)
          => /\ config.enable_caching
             /\ pc = "request" /\ pc' = "done"
             /\ IsResponse(log'[Len(log')]) /\ log'[Len(log')].status = 200
             /\ outcome'.kind = "return"
             /\ req.method = "GET" /\ req.use_cache
             /\ k = KeyOf(req)
    /\ (~config.enable_caching)
          => /\ cache' = EmptyMap /\ cache_timestamps' = EmptyMap
             /\ (pc' = "done" => attempts' >= 1)

\* C10: an entry is added or changed only by a 200 response to a GET with
\* use_cache=True while caching is enabled; with caching disabled the cache
\* stays empty and every call issues a transport attempt.
C10_CacheWrittenOnlyOn200 == [][C10_Step]_vars

\* a 200 response to a cache-eligible GET has just been stored
C10_Witness ==
    /\ config.enable_caching
    /\ pc = "done" /\ log # <<>>
    /\ IsResponse(LastReceived) /\ LastReceived.status = 200
    /\ CacheEligible(req)
    /\ KeyOf(req) \in DOMAIN cache
    /\ cache[KeyOf(req)] = outcome.value
    /\ cache_timestamps[KeyOf(req)] = now

\* ------------------------------------------------------------ construction
\* the attribute has not been assigned: the object does not exist yet
Undefined == "undefined"

LogLevels == {"DEBUG", "INFO", "WARNING", "ERROR", "CRITICAL"}

\* Mutant: only the credential is checked.
Validate_OnlyCredential(cfg) ==
    IF cfg.api_key = "" THEN "API key is required" ELSE None

\* Config.validate: the checks in the order of the code; the message of the
\* ValueError raised, or None when the configuration passes
Validate(cfg) ==
    IF cfg.api_key = "" THEN "API key is required"
    ELSE IF cfg.base_url = "" THEN "Base URL is required"
    ELSE IF cfg.timeout <= 0 THEN "Timeout must be positive"
    ELSE IF cfg.max_retries < 0 THEN "Max retries must be non-negative"
    ELSE IF cfg.retry_delay < 0 THEN "Retry delay must be non-negative"
    ELSE IF cfg.max_connections <= 0 THEN "Max connections must be positive"
    ELSE IF cfg.max_keepalive_connections <= 0
         THEN "Max keepalive connections must be positive"
    ELSE IF cfg.keepalive_expiry <= 0 THEN "Keepalive expiry must be positive"
    ELSE IF cfg.cache_ttl <= 0 THEN "Cache TTL must be positive"
    ELSE IF cfg.log_level \notin LogLevels THEN "Log level must be one of: "
    ELSE None

\* Mutant: the constructor stores the configuration without validating it.
Construct_Unvalidated ==
    /\ pc = "new"
    /\ pc' = "idle"
    /\ client' = None
    /\ UNCHANGED <<config, session_created, cache, cache_timestamps, now, req,
                   attempt, last_exception, outcome, attempts, sleeps, log,
                   started, calls, lastOK, created, closed, close_calls, scope,
                   cancelled, validations, toolVars, metricVars, taskVars, sent, completed>>

\* AgentMemClient.__init__: validate, then create the handle slot and the cache
Construct ==
    /\ pc = "new"
    /\ validations' = validations + 1
    /\ LET err == Validate(config)
       IN IF err # None
          THEN /\ pc' = "failed"
               /\ outcome' = Raised(Exc("ValueError", <<err>>))
               /\ UNCHANGED <<client, session_created, cache, cache_timestamps>>
          ELSE /\ pc' = "idle"
               /\ client' = None
               /\ session_created' = FALSE
               /\ cache' = EmptyMap
               /\ cache_timestamps' = EmptyMap
               /\ UNCHANGED outcome
    /\ UNCHANGED <<config, now, req, attempt, last_exception, attempts, sleeps,
                   log, started, calls, lastOK, created, closed, close_calls,
                   scope, cancelled, toolVars, metricVars, taskVars, sent, completed>>

\* Configurations handed to the constructor, valid and invalid in every field.
ConstructConfigs ==
    [api_key : {"", "k"}, base_url : {"", "http://localhost:8080"},
     timeout : {0, 30}, max_retries : {-1, 0, 1}, retry_delay : {-1, 0, 1},
     max_connections : {0, 100}, max_keepalive_connections : {0, 20},
     keepalive_expiry : {0, 5}, enable_caching : BOOLEAN, cache_ttl : {0, 1},
     log_level : {"INFO", "DEBUG", "VERBOSE"}]

ConstructRequests ==
    { Request("GET", "/memories/m1", <<>>, TRUE),
      Request("POST", "/memories", <<>>, FALSE) }

ConstructResponses ==
    { [status |-> 200, body |-> "{id:m2}"], [status |-> 500, body |-> ""] }

\* before the constructor has run
ConstructInit ==
    /\ config \in ConstructConfigs
    /\ client = Undefined
    /\ session_created = FALSE
    /\ cache = EmptyMap
    /\ cache_timestamps = EmptyMap
    /\ now = 0
    /\ pc = "new"
    /\ req = NoRequest
    /\ attempt = 0
    /\ last_exception = NoException
    /\ outcome = NoOutcome
    /\ attempts = 0
    /\ sleeps = <<>>
    /\ log = <<>>
    /\ started = <<>>
    /\ calls = 0
    /\ lastOK = EmptyMap
    /\ created = 0
    /\ closed = 0
    /\ close_calls = 0
    /\ scope = "none"
    /\ cancelled = FALSE
    /\ validations = 0
    /\ ToolInit
    /\ sent = <<>>
    /\ completed = <<>>
    /\ MetricsInit
    /\ TasksInit

ConstructNext ==
    \/ Construct
    \/ calls < MaxCalls /\ \E r \in ConstructRequests : Call(r)
    \/ \E r \in ConstructResponses : Respond(r.status, r.body)
    \/ TransportFails("ConnectError")
    \/ Wake
    \/ Return

ConstructSpec == ConstructInit /\ [][ConstructNext]_vars

\* ------------------------------------------------------------ domain operations
\* Bound on the update_memory calls of UpdateSpec.
MaxOpsCalls == 2

\* Python values are written as their literals: "" is the empty string, "0" the
\* number zero, "{}" the empty dict; these and None are the falsy ones.
Falsy == {None, "", "0", "{}"}

\* Mutant: `if x:` where the code has `if x is not None:`.
IsNotNone_Truthiness(v) == v \notin Falsy

\* Mutant: `if x is not None:` where the code has `if x:`.
Truthy_IsNotNone(v) == v # None

\* `x is not None`
IsNotNone(v) == v # None

\* `if x:`
Truthy(v) == v \notin Falsy

\* update_memory: data = {} and one key for each argument that is not None
UpdateData(content, importance, metadata) ==
    LET d0 == EmptyMap
        d1 == IF IsNotNone(content) THEN Put(d0, "content", content) ELSE d0
        d2 == IF IsNotNone(importance) THEN Put(d1, "importance", importance) ELSE d1
        d3 == IF IsNotNone(metadata) THEN Put(d2, "metadata", metadata) ELSE d2
    IN d3

\* add_memory: the four fixed keys and one key for each truthy optional argument
AddData(content, agent_id, memory_type, user_id, session_id, importance, metadata) ==
    LET d0 == [k \in {"content", "agent_id", "memory_type", "importance"} |->
                 CASE k = "content" -> content
                   [] k = "agent_id" -> agent_id
                   [] k = "memory_type" -> memory_type
                   [] k = "importance" -> importance]
        d1 == IF Truthy(user_id) THEN Put(d0, "user_id", user_id) ELSE d0
        d2 == IF Truthy(session_id) THEN Put(d1, "session_id", session_id) ELSE d1
        d3 == IF Truthy(metadata) THEN Put(d2, "metadata", metadata) ELSE d2
    IN d3

\* f"/memories/{memory_id}"
MemoryPath(memory_id) ==
    IF memory_id = "m1" THEN "/memories/m1"
    ELSE IF memory_id = StatsLikeId THEN StatsLikePath
    ELSE "/memories/m2"

\* the _make_request call of a domain operation: the operation's name and
\* arguments stay in its frame while the call runs
OpRequest(method, endpoint, data, op, args) ==
    [method |-> method, endpoint |-> endpoint, params |-> <<>>,
     use_cache |-> FALSE, data |-> data, op |-> op, args |-> args]

\* update_memory up to the await of _make_request("PUT", ..., data=data); the
\* variable outcome is the outcome of that call
UpdateMemory(memory_id, content, importance, metadata) ==
    Call(OpRequest("PUT", MemoryPath(memory_id),
                   UpdateData(content, importance, metadata), "update_memory",
                   [memory_id |-> memory_id, content |-> content,
                    importance |-> importance, metadata |-> metadata]))

\* add_memory up to the await of _make_request("POST", "/memories", data=data)
AddMemory(content, agent_id, memory_type, user_id, session_id, importance, metadata) ==
    Call(OpRequest("POST", "/memories",
                   AddData(content, agent_id, memory_type, user_id, session_id,
                           importance, metadata), "add_memory",
                   [content |-> content, agent_id |-> agent_id,
                    memory_type |-> memory_type, user_id |-> user_id,
                    session_id |-> session_id, importance |-> importance,
                    metadata |-> metadata]))

\* Argument values: absent (None), supplied but falsy, supplied and truthy.
Contents == {None, "", "text"}
Importances == {None, "0", "0.9"}
Metadatas == {None, "{}", "{k:v}"}
UserIds == {None, "", "u1"}
SessionIds == {None, "", "s1"}

\* One retry without delay: a retried attempt sends the body again.
OpsConfigs ==
    [max_retries : {1}, retry_delay : {0}, enable_caching : {FALSE}, cache_ttl : {1}]

OpsInit == InitWith(OpsConfigs)

UpdateNext ==
    \/ /\ calls < MaxOpsCalls
       /\ \E c \in Contents, i \in Importances, m \in Metadatas :
             UpdateMemory("m1", c, i, m)
    \/ Respond(200, "{id:m2}")
    \/ TransportFails("ConnectError")
    \/ Wake
    \/ Return

UpdateSpec == OpsInit /\ [][UpdateNext]_vars

AddNext ==
    \/ /\ calls < MaxCalls
       /\ \E c \in {"", "text"}, i \in {"0", "0.5"}, u \in UserIds,
             n \in SessionIds, m \in Metadatas :
             AddMemory(c, "a1", "untyped", u, n, i, m)
    \/ Respond(200, "{id:m2}")
    \/ TransportFails("ConnectError")
    \/ Wake
    \/ Return

AddSpec == OpsInit /\ [][AddNext]_vars

\* ------------------------------------------------------------ reads and writes
\* Bound on the calls of FrameSpec.
MaxFrameCalls == 3

\* the _make_request call of an operation that sends no body (data=None)
BodylessRequest(method, endpoint, params, use_cache, op, args) ==
    [method |-> method, endpoint |-> endpoint, params |-> params,
     use_cache |-> use_cache, op |-> op, args |-> args]

\* get_memory up to the await of _make_request("GET", ..., use_cache=True)
GetMemory(memory_id) ==
    Call(BodylessRequest("GET", MemoryPath(memory_id), <<>>, TRUE, "get_memory",
                         [memory_id |-> memory_id]))

\* delete_memory up to the await of _make_request("DELETE", ...)
DeleteMemory(memory_id) ==
    Call(BodylessRequest("DELETE", MemoryPath(memory_id), <<>>, FALSE,
                         "delete_memory", [memory_id |-> memory_id]))

\* search_memories up to the await of _make_request("POST", "/memories/search",
\* data=query.to_dict()), for a query of an agent_id and the default limit
SearchMemories(agent_id) ==
    Call(OpRequest("POST", "/memories/search",
                   [k \in {"agent_id", "limit"} |->
                        IF k = "agent_id" THEN agent_id ELSE "10"],
                   "search_memories", [agent_id |-> agent_id]))

\* batch_add_memories up to the await of _make_request("POST", "/memories/batch",
\* data={"memories": memories})
BatchAddMemories(memories) ==
    Call(OpRequest("POST", "/memories/batch", [k \in {"memories"} |-> memories],
                   "batch_add_memories", [memories |-> memories]))

\* get_memory_stats up to the await of _make_request("GET", "/memories/stats",
\* params={"agent_id": agent_id}, use_cache=True)
GetMemoryStats(agent_id) ==
    Call(BodylessRequest("GET", "/memories/stats", << <<"agent_id", agent_id>> >>,
                         TRUE, "get_memory_stats", [agent_id |-> agent_id]))

\* health_check
HealthCheck ==
    Call(BodylessRequest("GET", "/health", <<>>, TRUE, "health_check", <<>>))

\* AgentMemClient.get_metrics
ClientGetMetrics ==
    Call(BodylessRequest("GET", "/metrics", <<>>, TRUE, "get_metrics", <<>>))

\* Caching enabled, entries live for two units of time, no retries.
FrameConfigs ==
    [max_retries : {0}, retry_delay : {0}, enable_caching : {TRUE}, cache_ttl : {2}]

\* Responses of FrameSpec: a memory as it was and as it is after an update.
FrameResponses ==
    [status : {200}, body : {"{id:m1,content:old}", "{id:m1,content:new}"}]

FrameInit == InitWith(FrameConfigs)

FrameNext ==
    \/ calls < MaxFrameCalls /\ GetMemory("m1")
    \/ calls < MaxFrameCalls /\ UpdateMemory("m1", "text", None, None)
    \/ calls < MaxFrameCalls /\ DeleteMemory("m1")
    \/ calls < MaxFrameCalls /\ AddMemory("text", "a1", "untyped", None, None, "0.5", None)
    \/ calls < MaxFrameCalls /\ SearchMemories("a1")
    \/ calls < MaxFrameCalls /\ BatchAddMemories("[m]")
    \/ calls < MaxFrameCalls /\ GetMemoryStats("a1")
    \/ calls < MaxFrameCalls /\ HealthCheck
    \/ calls < MaxFrameCalls /\ ClientGetMetrics
    \/ \E r \in FrameResponses : Respond(r.status, r.body)
    \/ Return
    \/ Tick

FrameSpec == FrameInit /\ [][FrameNext]_vars

\* ------------------------------------------------------------ expiry
\* Bound on the calls of ExpirySpec.
MaxExpiryCalls == 3

\* Caching enabled, entries live for one or two units of time, no retries.
ExpiryConfigs ==
    [max_retries : {0}, retry_delay : {0}, enable_caching : {TRUE},
     cache_ttl : CacheTtls]

ExpiryInit == InitWith(ExpiryConfigs)

\* The same read again and again, answered with the memory as it was, as it
\* is after an update, or refused, while time passes between the calls.
ExpiryNext ==
    \/ calls < MaxExpiryCalls /\ GetMemory("m1")
    \/ \E body \in {"{id:m1,content:old}", "{id:m1,content:new}"} : Respond(200, body)
    \/ Respond(404, "")
    \/ Return
    \/ Tick

ExpirySpec == ExpiryInit /\ [][ExpiryNext]_vars

\* ------------------------------------------------------------ keys
\* Bound on the calls of KeySpec.
MaxKeyCalls == 2

\* Reads of two memories, of the statistics of two agents, and of the memory
\* whose id reads like the statistics of the first agent.
KeyNext ==
    \/ /\ calls < MaxKeyCalls
       /\ \E memory_id \in {"m1", "m2", StatsLikeId} : GetMemory(memory_id)
    \/ calls < MaxKeyCalls /\ \E agent_id \in {"a1", "a2"} : GetMemoryStats(agent_id)
    \/ \E body \in {"{id:m1,content:old}", "{id:m2}"} : Respond(200, body)
    \/ Return
    \/ Tick

KeySpec == FrameInit /\ [][KeyNext]_vars

\* ------------------------------------------------------------ concurrent requests
\* Bound on the _make_request calls of TaskSpec.
MaxTaskCalls == 2

\* Bound on the close() calls of TaskSpec.
MaxTaskCloses == 1

\* the variables of the one call of the sequential specifications
frameVars == <<pc, req, attempt, last_exception, outcome, attempts, sleeps, log,
               started, sent, completed, scope, cancelled, validations>>

\* AsyncClient.request on a closed AsyncClient raises before anything is sent
ClosedError ==
    Exc("RuntimeError", <<"Cannot send a request, as the client has been closed.">>)

\* `await client.request(...)` on the task's local client: the call suspends
\* in the transport, or a closed handle refuses it and the RuntimeError, which
\* no except clause of _make_request catches, leaves the call
Attempted(k) ==
    IF k.handle \in released
    THEN [k EXCEPT !.pc = "done", !.outcome = Raised(ClosedError)]
    ELSE [k EXCEPT !.pc = "request", !.outcome = NoOutcome]

Issued(k) ==
    issued \cup {[handle |-> k.handle, attempt |-> k.attempt,
                  open |-> k.handle \notin released]}

\* an exception raised inside the try block of the task's call
TaskAfterException(k, e) ==
    IF CaughtForRetry(e.type)
    THEN LET last == Exc("NetworkError", <<"Network error: ">> \o e.msg)
         IN IF RetryAllowed(k.attempt)
            THEN [k EXCEPT !.pc = "sleep", !.last_exception = last]
            ELSE [k EXCEPT !.pc = "done", !.last_exception = last,
                           !.outcome = AfterLoop(last)]
    ELSE [k EXCEPT !.pc = "done", !.outcome = Raised(e)]

\* a task's _make_request up to its first suspension: _get_client (which has
\* no await inside), the cache lookup, and on a miss the first client.request
TaskCall(t, r) ==
    /\ tasks[t].pc = "idle"
    /\ calls' = calls + 1
    /\ GetClient
    /\ LET cached == IF CacheEligible(r) THEN GetCacheValue(KeyOf(r)) ELSE None
           maps == IF CacheEligible(r) THEN GetCacheMaps(KeyOf(r))
                   ELSE <<cache, cache_timestamps>>
           k == [IdleTask EXCEPT !.req = r, !.handle = created']
       IN /\ cache' = maps[1]
          /\ cache_timestamps' = maps[2]
          /\ IF cached # None
             THEN /\ tasks' = [tasks EXCEPT ![t] =
                                  [k EXCEPT !.pc = "done", !.outcome = Returned(cached)]]
                  /\ UNCHANGED issued
             ELSE /\ tasks' = [tasks EXCEPT ![t] = Attempted(k)]
                  /\ issued' = Issued(k)
    /\ UNCHANGED <<config, now, lastOK, closed, close_calls, released, closing,
                   frameVars, toolVars, metricVars>>

\* a task's client.request returns a response: the status dispatch
TaskRespond(t, status, body) ==
    /\ tasks[t].pc = "request"
    /\ LET k == tasks[t]
           h == HandleResponse(status, body)
           stores == h.kind = "return" /\ CacheEligible(k.req)
           maps == IF stores THEN SetCacheMaps(KeyOf(k.req), h.value)
                   ELSE <<cache, cache_timestamps>>
       IN /\ cache' = maps[1]
          /\ cache_timestamps' = maps[2]
          /\ lastOK' = IF stores
                       THEN Put(lastOK, KeyOf(k.req),
                                [value |-> h.value, at |-> now, by |-> k.req])
                       ELSE lastOK
          /\ tasks' = [tasks EXCEPT ![t] =
                          IF h.kind = "return"
                          THEN [k EXCEPT !.pc = "done", !.outcome = h]
                          ELSE TaskAfterException(k, h.exc)]
    /\ UNCHANGED <<config, client, session_created, now, calls, created, closed,
                   close_calls, released, closing, issued, frameVars, toolVars,
                   metricVars>>

\* a task's client.request raises an httpx.RequestError
TaskFails(t, e) ==
    /\ tasks[t].pc = "request"
    /\ tasks' = [tasks EXCEPT ![t] = TaskAfterException(tasks[t], Exc(e, <<e>>))]
    /\ UNCHANGED <<config, client, session_created, cache, cache_timestamps, now,
                   calls, lastOK, created, closed, close_calls, released, closing,
                   issued, frameVars, toolVars, metricVars>>

\* a task's asyncio.sleep(delay) returns: the next iteration issues
\* client.request on the local client the call took when it began
TaskWake(t) ==
    /\ tasks[t].pc = "sleep"
    /\ LET k == [tasks[t] EXCEPT !.attempt = @ + 1]
       IN /\ tasks' = [tasks EXCEPT ![t] = Attempted(k)]
          /\ issued' = Issued(k)
    /\ UNCHANGED <<config, client, session_created, cache, cache_timestamps, now,
                   calls, lastOK, created, closed, close_calls, released, closing,
                   frameVars, toolVars, metricVars>>

\* the result or the exception reaches the task's caller
TaskReturn(t) ==
    /\ tasks[t].pc = "done"
    /\ tasks' = [tasks EXCEPT ![t] = IdleTask]
    /\ UNCHANGED <<config, client, session_created, cache, cache_timestamps, now,
                   calls, lastOK, created, closed, close_calls, released, closing,
                   issued, frameVars, toolVars, metricVars>>

\* close() up to its suspension: `await self._client.aclose()` marks the
\* AsyncClient closed; without a handle close() does nothing
CloseBegins ==
    /\ closing = NoHandle
    /\ close_calls < MaxTaskCloses
    /\ close_calls' = close_calls + 1
    /\ IF client # None
       THEN released' = released \cup {created} /\ closing' = created
       ELSE UNCHANGED <<released, closing>>
    /\ UNCHANGED <<config, client, session_created, cache, cache_timestamps, now,
                   calls, lastOK, created, closed, tasks, issued, frameVars,
                   toolVars, metricVars>>

\* aclose() returns: `self._client = None; self._session_created = False`
CloseEnds ==
    /\ closing # NoHandle
    /\ closing' = NoHandle
    /\ client' = None
    /\ session_created' = FALSE
    /\ closed' = closed + 1
    /\ UNCHANGED <<config, cache, cache_timestamps, now, calls, lastOK, created,
                   close_calls, released, tasks, issued, frameVars, toolVars,
                   metricVars>>

\* Validated configurations of TaskSpec: one retry after a sleep of 0 seconds.
TaskConfigs ==
    [max_retries : {1}, retry_delay : {0}, enable_caching : {TRUE}, cache_ttl : {1}]

\* Calls of TaskSpec: cached reads of one memory.
TaskRequests == { Request("GET", "/memories/m1", <<>>, TRUE) }

TaskInit == InitWith(TaskConfigs)

TaskNext ==
    \/ calls < MaxTaskCalls /\ \E t \in Tasks, r \in TaskRequests : TaskCall(t, r)
    \/ \E t \in Tasks, body \in {"{id:m1,content:old}", "{id:m1,content:new}"} :
          TaskRespond(t, 200, body)
    \/ \E t \in Tasks : TaskFails(t, "ConnectError")
    \/ \E t \in Tasks : TaskWake(t)
    \/ \E t \in Tasks : TaskReturn(t)
    \/ CloseBegins
    \/ CloseEnds
    \/ Tick

TaskSpec == TaskInit /\ [][TaskNext]_vars

\* ------------------------------------------------------------ tool executor
\* the client's variables, which the ToolExecutor does not touch
clientVars == <<config, client, session_created, callVars, lifeVars, sent, completed>>

\* error=None of a ToolExecution; an error message is a sequence of its words
NoError == <<>>

\* timeout=None of execute; a given timeout t is <<t>>
NoTimeout == <<>>

ToolParameter(name, required) == [name |-> name, required |-> required]

ToolSchema(name, parameters) == [name |-> name, parameters |-> parameters]

\* The schemas registered: both parameters required in either order, one of
\* them optional, and a tool with one optional parameter.
Schemas ==
    { ToolSchema("calculator", <<ToolParameter("a", TRUE), ToolParameter("b", TRUE)>>),
      ToolSchema("calculator", <<ToolParameter("b", TRUE), ToolParameter("a", TRUE)>>),
      ToolSchema("calculator", <<ToolParameter("a", TRUE), ToolParameter("b", FALSE)>>),
      ToolSchema("echo", <<ToolParameter("a", FALSE)>>) }

\* a function of the parameters a and b, defined with `def` or `async def`;
\* optional are its parameters with a default; behaviour is "returns" (it
\* returns "v") or the class of the exception it raises, at once or after
\* some time
Handler(is_async, optional, behaviour, duration) ==
    [is_async |-> is_async, params |-> {"a", "b"}, optional |-> optional,
     behaviour |-> behaviour, duration |-> duration]

\* Handlers registered with every schema.
BasicHandlers ==
    { Handler(FALSE, {}, "returns", 0),
      Handler(TRUE, {"b"}, "returns", 0) }

\* The handlers registered.
Handlers ==
    BasicHandlers \cup
    { Handler(FALSE, {"b"}, "ValueError", 0),
      Handler(FALSE, {"b"}, "returns", 2),
      Handler(TRUE, {}, "returns", 2),
      Handler(TRUE, {"b"}, "ValueError", 2),
      Handler(TRUE, {"b"}, "TimeoutError", 0),
      Handler(FALSE, {"b"}, "SystemExit", 0) }

\* the schema both of whose parameters are required, a before b
MainSchema ==
    ToolSchema("calculator", <<ToolParameter("a", TRUE), ToolParameter("b", TRUE)>>)

\* The registrations made: every handler under the main schema, the basic
\* handlers under every schema.
Registrations ==
    {g \in Schemas \X Handlers : g[1] = MainSchema \/ g[2] \in BasicHandlers}

ToolNames == {"calculator", "echo", "nonexistent"}

\* The inputs executed: dicts over the keys a and b.
Inputs == UNION {[keys -> {"1"}] : keys \in SUBSET {"a", "b"}}

Timeouts == {NoTimeout, <<0>>, <<1>>}

\* exceptions that derive from BaseException but not from Exception
BaseOnly == {"SystemExit", "KeyboardInterrupt", "GeneratorExit"}

\* register_tool
RegisterTool(schema, handler) ==
    /\ tools' = Put(tools, schema.name, schema)
    /\ handlers' = Put(handlers, schema.name, handler)
    /\ returned' = [op |-> "register_tool", name |-> schema.name,
                    schema |-> schema, handler |-> handler]
    /\ UNCHANGED <<execution, invoked, removed, escaped, ended, executed,
                   clientVars, metricVars, taskVars>>

\* Mutant: unregister_tool reports success whether or not the name was there.
UnregisterValue_AlwaysTrue(name) == TRUE

\* what unregister_tool returns
UnregisterValue(name) == name \in DOMAIN tools

\* Mutant: unregister_tool deletes the schema and keeps the handler.
HandlersWithout_Kept(name) == handlers

\* `del self._handlers[name]`
HandlersWithout(name) == Pop(handlers, name)

\* unregister_tool
UnregisterTool(name) ==
    /\ IF name \in DOMAIN tools
       THEN /\ tools' = Pop(tools, name)
            /\ handlers' = HandlersWithout(name)
            /\ removed' = removed \cup {name}
       ELSE UNCHANGED <<tools, handlers, removed>>
    /\ returned' = [op |-> "unregister_tool", name |-> name,
                    ok |-> UnregisterValue(name)]
    /\ UNCHANGED <<execution, invoked, escaped, ended, executed, clientVars,
                   metricVars, taskVars>>

\* get_tool: self._tools.get(name); None is <<>>, a schema s is <<s>>
GetTool(name) ==
    /\ returned' = [op |-> "get_tool", name |-> name,
                    found |-> IF name \in DOMAIN tools THEN <<tools[name]>>
                              ELSE <<>>]
    /\ UNCHANGED <<tools, handlers, execution, invoked, removed, escaped, ended,
                   executed, clientVars, metricVars, taskVars>>

\* the lists with one element for each key of the dict; the dict yields its
\* values in the order its keys were inserted, which is not kept here
ValueLists(d) ==
    {q \in UNION {[1..Cardinality(DOMAIN d) -> {d[k] : k \in DOMAIN d}]} :
        \A k \in DOMAIN d : \E i \in DOMAIN q : q[i] = d[k]}

\* list_tools: list(self._tools.values())
ListTools ==
    /\ \E q \in ValueLists(tools) :
          returned' = [op |-> "list_tools", name |-> None, list |-> q]
    /\ UNCHANGED <<tools, handlers, execution, invoked, removed, escaped, ended,
                   executed, clientVars, metricVars, taskVars>>

\* ToolExecution(...) as execute builds it; output and error default to None;
\* duration_ms=None is <<>>, a measured duration d is <<d>>
ToolExecution(tool_name, status, input, output, error, duration_ms) ==
    [tool_name |-> tool_name, status |-> status, input |-> input,
     output |-> output, error |-> error, duration_ms |-> <<duration_ms>>]

\* Mutant: the lookup fails with a KeyError whose text is reported.
NotFoundMessage_KeyError(tool_name) == <<"KeyError:", tool_name>>

\* f"Tool '{tool_name}' not found"
NotFoundMessage(tool_name) == <<"Tool", "'", tool_name, "'", "not", "found">>

\* f"Missing required parameter: {param.name}"
MissingMessage(name) == <<"Missing", "required", "parameter:", name>>

\* f"Tool execution timed out after {timeout}s"
TimedOutMessage(timeout) ==
    <<"Tool", "execution", "timed", "out", "after",
      IF timeout = NoTimeout THEN "None" ELSE ToString(timeout[1]), "s">>

\* Mutant: every parameter of the schema is treated as required.
FirstMissing_IgnoresRequired(schema, input_data) ==
    LET absent == {i \in 1..Len(schema.parameters) :
                     schema.parameters[i].name \notin DOMAIN input_data}
    IN IF absent = {} THEN 0 ELSE CHOOSE i \in absent : \A j \in absent : i <= j

\* the validation loop: the index of the first parameter of the schema that is
\* required and not a key of the input, 0 when there is none
FirstMissing(schema, input_data) ==
    LET absent == {i \in 1..Len(schema.parameters) :
                     /\ schema.parameters[i].required
                     /\ schema.parameters[i].name \notin DOMAIN input_data}
    IN IF absent = {} THEN 0 ELSE CHOOSE i \in absent : \A j \in absent : i <= j

\* `if timeout:`
TimeoutGiven(timeout) == timeout # NoTimeout /\ timeout[1] # 0

\* asyncio.iscoroutinefunction(handler): only such a handler is awaited, and
\* only an awaited handler can be put under asyncio.wait_for
Awaited(handler) == handler.is_async

\* handler(**input_data) binds when every parameter without a default is a key
\* of the input (the inputs carry no key the handlers do not accept)
Binds(handler, input_data) ==
    (handler.params \ handler.optional) \subseteq DOMAIN input_data

\* the result of an execute() that returns
Returns(exec, n, end) ==
    [execution |-> exec, invoked |-> n, ended |-> end, escaped |-> NoException]

\* an execute() that an exception leaves
Escapes(e, n, end) ==
    [execution |-> NoExecution, invoked |-> n, ended |-> end, escaped |-> e]

\* `except Exception as e`
CaughtByExecute(type) == type \notin BaseOnly

\* Mutant: the output of a synchronous handler is dropped.
SuccessOutput_AsyncOnly(handler) == IF handler.is_async THEN "v" ELSE None

\* output = handler(**input_data), awaited or not
SuccessOutput(handler) == "v"

\* the try block of execute and its except clauses
RunHandler(tool_name, handler, input_data, timeout) ==
    IF ~Binds(handler, input_data)
    THEN Returns(ToolExecution(tool_name, "FAILED", input_data, None,
                               <<"handler()", "missing", "required",
                                 "positional", "argument">>, 0), 0, "none")
    ELSE IF Awaited(handler) /\ TimeoutGiven(timeout)
              /\ handler.duration > timeout[1]
    THEN Returns(ToolExecution(tool_name, "FAILED", input_data, None,
                               TimedOutMessage(timeout), 1000 * timeout[1]),
                 1, "cancelled")
    ELSE IF handler.behaviour = "returns"
    THEN Returns(ToolExecution(tool_name, "SUCCESS", input_data,
                               SuccessOutput(handler), NoError,
                               1000 * handler.duration), 1, "returned")
    ELSE IF handler.behaviour = "TimeoutError"
    THEN Returns(ToolExecution(tool_name, "FAILED", input_data, None,
                               TimedOutMessage(timeout),
                               1000 * handler.duration), 1, "raised")
    ELSE IF CaughtByExecute(handler.behaviour)
    THEN Returns(ToolExecution(tool_name, "FAILED", input_data, None,
                               <<"boom">>, 1000 * handler.duration), 1, "raised")
    ELSE Escapes(Exc(handler.behaviour, <<"boom">>), 1, "raised")

\* execute
Execute(tool_name, input_data, timeout) ==
    /\ LET r == IF tool_name \notin DOMAIN tools
                THEN Returns(ToolExecution(tool_name, "FAILED", input_data, None,
                                           NotFoundMessage(tool_name), 0),
                             0, "none")
                ELSE LET schema == tools[tool_name]
                         i == FirstMissing(schema, input_data)
                     IN IF i # 0
                        THEN Returns(ToolExecution(tool_name, "FAILED",
                                   input_data, None,
                                   MissingMessage(schema.parameters[i].name), 0),
                                   0, "none")
                        ELSE RunHandler(tool_name, handlers[tool_name],
                                        input_data, timeout)
       IN /\ execution' = r.execution
          /\ invoked' = r.invoked
          /\ ended' = r.ended
          /\ escaped' = r.escaped
    /\ executed' = [op |-> "execute", tool_name |-> tool_name,
                    input |-> input_data, timeout |-> timeout]
    /\ UNCHANGED <<tools, handlers, removed, returned, clientVars, metricVars, taskVars>>

\* The registrations of ToolSpec: those of the calculator.
ToolRegistrations == {g \in Registrations : g[1].name = "calculator"}

\* The names ToolSpec executes and unregisters.
ExecutedNames == {"calculator", "nonexistent"}

ToolNext ==
    \/ \E g \in ToolRegistrations : RegisterTool(g[1], g[2])
    \/ \E name \in ExecutedNames : UnregisterTool(name)
    \/ \E name \in ExecutedNames, input_data \in Inputs, timeout \in Timeouts :
          Execute(name, input_data, timeout)

ToolSpec == OpsInit /\ [][ToolNext]_vars

RegistryNext ==
    \/ \E g \in Registrations : RegisterTool(g[1], g[2])
    \/ \E name \in ToolNames : UnregisterTool(name)
    \/ \E name \in ToolNames : GetTool(name)
    \/ ListTools

RegistrySpec == OpsInit /\ [][RegistryNext]_vars

\* ------------------------------------------------------------ metrics collector
\* Bound on the recording calls of MetricsSpec.
MaxMetricCalls == 3

\* Bound on the recording calls of HistogramSpec.
MaxHistCalls == 4

\* Bits in the significand of a float of the model (a Python float has 53).
Precision == 6

\* the tools' and the client's variables, which the MetricsCollector does not
\* touch
nonMetricVars == <<toolVars, clientVars, taskVars>>

\* Strings are sequences of characters where their text matters; labels are
\* the items of a dict in insertion order, (name, value) with a one-letter
\* name; None and {} are both <<>>.
NoLabels == <<>>

LabelsA == << <<"a", <<"1">>>> >>
LabelsAB == << <<"a", <<"1">>>>, <<"b", <<"2">>>> >>
LabelsBA == << <<"b", <<"2">>>>, <<"a", <<"1">>>> >>

\* One label whose value holds a "," and a "=".
LabelsComma == << <<"a", <<"1", ",", "b", "=", "2">>>> >>

\* A metric name.
PlainName == <<"m">>

\* f"{k}={v}"
ItemText(item) == <<item[1], "=">> \o item[2]

\* ",".join(f"{k}={v}" for k, v in items)
RECURSIVE JoinItems(_)
JoinItems(items) ==
    IF items = <<>> THEN <<>>
    ELSE IF Len(items) = 1 THEN ItemText(Head(items))
    ELSE ItemText(Head(items)) \o <<",">> \o JoinItems(Tail(items))

\* sorted(labels.items()): the items in the order of their names
SortedItems(labels) == Dumps(labels)

\* _make_key
MakeKey(name, labels) ==
    IF labels = <<>> THEN name
    ELSE name \o <<"|">> \o JoinItems(SortedItems(labels))

\* d.get(key, default)
Get(d, key, default) == IF key \in DOMAIN d THEN d[key] ELSE default

\* increment
Increment(name, value, labels) ==
    /\ LET key == MakeKey(name, labels)
       IN counters' = Put(counters, key, Get(counters, key, 0) + value)
    /\ recorded' = Append(recorded, [op |-> "increment", name |-> name,
                                     labels |-> labels, value |-> value])
    /\ UNCHANGED <<gauges, histograms, start_time, nonMetricVars>>

\* set_gauge
SetGauge(name, value, labels) ==
    /\ gauges' = Put(gauges, MakeKey(name, labels), value)
    /\ recorded' = Append(recorded, [op |-> "set_gauge", name |-> name,
                                     labels |-> labels, value |-> value])
    /\ UNCHANGED <<counters, histograms, start_time, nonMetricVars>>

\* record_histogram
RecordHistogram(name, value, labels) ==
    /\ LET key == MakeKey(name, labels)
       IN histograms' = Put(histograms, key,
                            Append(Get(histograms, key, <<>>), value))
    /\ recorded' = Append(recorded, [op |-> "record_histogram", name |-> name,
                                     labels |-> labels, value |-> value])
    /\ UNCHANGED <<counters, gauges, start_time, nonMetricVars>>

\* Mutant: reset clears nothing.
Cleared_Nothing(d) == d

\* d.clear()
Cleared(d) == EmptyMap

\* reset
Reset ==
    /\ counters' = Cleared(counters)
    /\ gauges' = Cleared(gauges)
    /\ histograms' = Cleared(histograms)
    /\ start_time' = now
    /\ recorded' = Append(recorded, [op |-> "reset", name |-> <<>>,
                                     labels |-> <<>>, value |-> 0])
    /\ UNCHANGED nonMetricVars

\* get_counter
GetCounter(name, labels) == Get(counters, MakeKey(name, labels), 0)

\* get_gauge
GetGauge(name, labels) == Get(gauges, MakeKey(name, labels), 0)

\* A Python float: the number m * 2^e when sign = 1 and m * 2^(-e) when
\* sign = -1, with m = 0 or 2^(Precision-1) <= m < 2^Precision. Every
\* arithmetic operation rounds its exact result to the nearest such number,
\* ties to the even significand.
Zero == [m |-> 0, sign |-> 1, e |-> 0]

\* m * 2^x for an integer x that may be negative
Float(m, x) == IF x >= 0 THEN [m |-> m, sign |-> 1, e |-> x]
               ELSE [m |-> m, sign |-> -1, e |-> -x]

Exponent(a) == a.sign * a.e

\* The number of low bits an integer m >= 2^Precision loses in rounding.
Excess(m) == CHOOSE s \in 1..31 : m \div 2^s < 2^Precision /\ m \div 2^(s - 1) >= 2^Precision

\* The float nearest to m * 2^x, for integers m >= 0 and x.
RECURSIVE Round(_, _)
Round(m, x) ==
    IF m = 0 THEN Zero
    ELSE IF m < 2^(Precision - 1) THEN Round(2 * m, x - 1)
    ELSE IF m < 2^Precision THEN Float(m, x)
    ELSE LET s == Excess(m)
             q == m \div 2^s
             r == m % 2^s
             half == 2^(s - 1)
             up == r > half \/ (r = half /\ q % 2 = 1)
         IN IF ~up THEN Float(q, x + s)
            ELSE IF q + 1 = 2^Precision THEN Float(2^(Precision - 1), x + s + 1)
            ELSE Float(q + 1, x + s)

\* float(n) of an int n >= 0
FromInt(n) == Round(n, 0)

\* The float nearest to num / den, for 0 < den and den <= 2 * num: the
\* quotient to Precision + 2 bits and a sticky bit for what is left over.
Literal(num, den) ==
    LET scaled == num * 2^(Precision + 2)
        sticky == IF scaled % den = 0 THEN 0 ELSE 1
    IN Round(2 * (scaled \div den) + sticky, -(Precision + 3))

\* a * b
Mul(a, b) == Round(a.m * b.m, Exponent(a) + Exponent(b))

\* The significand of a at the exponent x <= Exponent(a).
Aligned(a, x) == a.m * 2^(Exponent(a) - x)

LowerExponent(a, b) == IF Exponent(a) <= Exponent(b) THEN Exponent(a) ELSE Exponent(b)

\* a + b
Add(a, b) ==
    IF a.m = 0 THEN b
    ELSE IF b.m = 0 THEN a
    ELSE Round(Aligned(a, LowerExponent(a, b)) + Aligned(b, LowerExponent(a, b)), LowerExponent(a, b))

\* a - b for a >= b
Sub(a, b) ==
    IF b.m = 0 THEN a
    ELSE Round(Aligned(a, LowerExponent(a, b)) - Aligned(b, LowerExponent(a, b)), LowerExponent(a, b))

\* a / n for an int n > 0
Div(a, n) ==
    IF a.m = 0 THEN Zero
    ELSE LET scaled == a.m * 2^(Precision + 2)
             sticky == IF scaled % n = 0 THEN 0 ELSE 1
         IN Round(2 * (scaled \div n) + sticky, Exponent(a) - (Precision + 3))

\* int(a) for a >= 0
IntOf(a) == IF a.sign = 1 THEN a.m * 2^a.e ELSE a.m \div 2^a.e

\* sum(values): 0 + values[0] + values[1] + ..., each sum rounded
RECURSIVE Sum(_)
Sum(values) ==
    IF values = <<>> THEN Zero
    ELSE Add(Sum(SubSeq(values, 1, Len(values) - 1)),
             FromInt(values[Len(values)]))

\* _percentile; the list is indexed from 0 in the code and from 1 here
Percentile(sorted_values, p) ==
    LET n == Len(sorted_values)
        k == Mul(FromInt(n - 1), p)
        f == IntOf(k)
        c == f + 1
    IN IF n = 0 THEN Zero
       ELSE IF c >= n THEN FromInt(sorted_values[n])
       ELSE LET d0 == Mul(FromInt(sorted_values[f + 1]), Sub(FromInt(c), k))
                d1 == Mul(FromInt(sorted_values[c + 1]), Sub(k, FromInt(f)))
            IN Add(d0, d1)

\* sorted(values)
Sorted(values) == SortSeq(values, LAMBDA x, y : x < y)

\* get_histogram_stats; the samples are whole numbers
GetHistogramStats(name, labels) ==
    LET values == Get(histograms, MakeKey(name, labels), <<>>)
        sorted_values == Sorted(values)
        count == Len(sorted_values)
    IN IF values = <<>>
       THEN [count |-> 0, sum |-> Zero, min |-> Zero, max |-> Zero, avg |-> Zero,
             p50 |-> Zero, p95 |-> Zero, p99 |-> Zero]
       ELSE [count |-> count, sum |-> Sum(sorted_values),
             min |-> FromInt(sorted_values[1]),
             max |-> FromInt(sorted_values[count]),
             avg |-> Div(Sum(sorted_values), count),
             p50 |-> Percentile(sorted_values, Literal(50, 100)),
             p95 |-> Percentile(sorted_values, Literal(95, 100)),
             p99 |-> Percentile(sorted_values, Literal(99, 100))]

\* k.split("|")[0]: the characters before the first "|"
RECURSIVE SplitHead(_)
SplitHead(key) ==
    IF key = <<>> \/ Head(key) = "|" THEN <<>>
    ELSE <<Head(key)>> \o SplitHead(Tail(key))

\* get_metrics without uptime_seconds: the histograms are looked up under the
\* part of their key before the first "|", without labels
GetMetrics ==
    LET names == {SplitHead(k) : k \in DOMAIN histograms}
    IN [counters |-> counters, gauges |-> gauges,
        histograms |-> [n \in names |-> GetHistogramStats(n, NoLabels)]]

\* The metrics addressed in MetricsSpec: a name without labels, with two
\* labels in both insertion orders, and with one label whose value reads like
\* the text of two.
Addresses ==
    { <<PlainName, NoLabels>>, <<PlainName, LabelsComma>>,
      <<PlainName, LabelsAB>>, <<PlainName, LabelsBA>> }

\* The metrics addressed in HistogramSpec.
HistAddresses == { <<PlainName, NoLabels>>, <<PlainName, LabelsA>> }

\* Samples of whole value: one of a single bit and two that fill the
\* significand.
Samples == {1, 37, 53}

MetricsNext ==
    \/ /\ Len(recorded) < MaxMetricCalls
       /\ \E a \in Addresses, v \in {1, 2} : Increment(a[1], v, a[2])
    \/ /\ Len(recorded) < MaxMetricCalls
       /\ \E a \in Addresses, v \in {1, 2} : SetGauge(a[1], v, a[2])
    \/ /\ Len(recorded) < MaxMetricCalls
       /\ \E a \in Addresses : RecordHistogram(a[1], 1, a[2])
    \/ Len(recorded) < MaxMetricCalls /\ Reset

MetricsSpec == OpsInit /\ [][MetricsNext]_vars

HistogramNext ==
    \/ /\ Len(recorded) < MaxHistCalls
       /\ \E a \in HistAddresses, v \in Samples : RecordHistogram(a[1], v, a[2])
    \/ Len(recorded) < MaxHistCalls /\ Increment(PlainName, 1, NoLabels)
    \/ Len(recorded) < MaxHistCalls /\ SetGauge(PlainName, 2, NoLabels)
    \/ Len(recorded) < MaxHistCalls /\ Reset

HistogramSpec == OpsInit /\ [][HistogramNext]_vars

\* ------------------------------------------------------------ lifecycle claims
\* the step is the entry of a _make_request call
IsCallStep == pc = "idle" /\ pc' \in {"request", "done"}

\* the step is an invocation of close(), direct or by __aexit__
IsCloseStep == close_calls' = close_calls + 1

C11_Step ==
    /\ created = 0 => client = None
    /\ (client = None) <=> (created = closed)
    /\ (client' = None) <=> (created' = closed')
    /\ created' - closed' \in {0, 1}
    /\ IsCallStep
         => /\ client' # None
            /\ client = None => created' = created + 1
            /\ client # None => created' = created /\ client' = client
    /\ IsCloseStep
         => /\ client' = None
            /\ session_created' = FALSE
            /\ client = None => closed' = closed /\ UNCHANGED <<callVars, created>>
            /\ client # None => closed' = closed + 1
    /\ (scope = "inside" /\ scope' \in {"exited", "raised"})
         => IsCloseStep /\ client' = None
    /\ created' # created => IsCallStep
    /\ closed' # closed => IsCloseStep

\* C11: a client has no connection handle after construction; a request made
\* without a handle creates one and a request made with a handle reuses it, so
\* at most one handle is open at any time; close() releases the handle, and is
\* a no-op without one; leaving an `async with` block, normally or by an
\* exception, closes the handle.
C11_HandleLifecycle == [][C11_Step]_vars

\* two requests shared one handle, and the block left by an exception closed it
C11_Witness ==
    /\ calls = 2
    /\ created = 1
    /\ closed = 1
    /\ scope = "raised"
    /\ client = None

C12_Step ==
    /\ (~cancelled /\ cancelled')
         => /\ pc \in {"request", "sleep"}
            /\ pc' = "done"
            /\ outcome' = Raised(CancelledError)
            /\ attempts' = attempts
            /\ UNCHANGED <<cache, cache_timestamps, lastOK, log, sleeps, started,
                           attempt>>
    /\ cancelled' => pc' = "done" /\ outcome'.exc.type # "NetworkError"

\* C12: a cancellation of the caller's task while the call is suspended in a
\* transport call or in a backoff sleep ends the call with CancelledError: no
\* further attempt is issued, no sleep is started, the cache is not written,
\* the cancellation is not turned into NetworkError, and what the completed
\* attempts did stays as it is.
C12_CancellationEndsCall == [][C12_Step]_vars

\* the second attempt was cancelled after the first had failed
C12_Witness ==
    /\ cancelled
    /\ pc = "done"
    /\ attempts = 2
    /\ Len(log) = 1
    /\ outcome = Raised(CancelledError)

\* ------------------------------------------------------------ retry schedule
\* the times the attempts were issued at, measured from the first one
Offsets == [i \in 1..Len(started) |-> started[i] - started[1]]

\* a finished call with max_retries = 2, retry_delay = 1, each attempt failed
C18_Case ==
    /\ pc = "done"
    /\ config.max_retries = 2
    /\ config.retry_delay = 1
    /\ AllFailed
    /\ \A i \in 1..Len(log) : log[i].error = "ConnectError"

\* C18 as stated: the three attempts are issued at 0, 1 and 2.
C18_AttemptsAt012 ==
    C18_Case => Offsets = <<0, 1, 2>> /\ outcome.exc.type = "NetworkError"

\* C18: with max_retries = 2 and retry_delay = 1 and every attempt failing
\* with a connection error, the call issues its three attempts at times 0, 1
\* and 3 from its start (sleeps of 1 and then 2) and then raises NetworkError.
C18_AttemptsAt013 ==
    C18_Case
    => /\ Offsets = <<0, 1, 3>>
       /\ sleeps = <<1, 2>>
       /\ outcome = Raised(Exc("NetworkError", <<"Network error: ", "ConnectError">>))

\* the call of the example has ended
C18_Witness == C18_Case /\ attempts = 3 /\ Len(started) = 3

\* ------------------------------------------------------------ construction claims
C13_Step ==
    /\ validations' # validations
         => pc = "new" /\ validations = 0 /\ validations' = 1
    /\ pc' # "new" => validations' = 1
    /\ (pc = "new" /\ pc' # "new")
         => /\ Validate(config) # None
                => /\ pc' = "failed"
                   /\ outcome'.kind = "raise"
                   /\ client' = Undefined
                   /\ cache' = cache /\ cache_timestamps' = cache_timestamps
            /\ Validate(config) = None => pc' = "idle" /\ client' = None
    /\ pc = "failed" => UNCHANGED vars
    /\ calls' # calls => validations = 1 /\ Validate(config) = None

\* C13: the configuration is validated exactly once, by the constructor and
\* before the handle slot and the cache are created: when validate() rejects
\* it the constructor raises, no client comes to exist and no request is ever
\* made; no step of a request validates again.
C13_ValidatedOnceAtConstruction == [][C13_Step]_vars

\* a request has run to its end on a client validated once
C13_Witness ==
    /\ validations = 1
    /\ calls = 1
    /\ pc = "done"
    /\ attempts = 2

\* one of the nine conditions of C14 holds
C14_Rejectable(cfg) ==
    \/ cfg.api_key = ""
    \/ cfg.base_url = ""
    \/ cfg.timeout <= 0
    \/ cfg.max_retries < 0
    \/ cfg.retry_delay < 0
    \/ cfg.max_connections <= 0
    \/ cfg.max_keepalive_connections <= 0
    \/ cfg.keepalive_expiry <= 0
    \/ cfg.log_level \notin {"DEBUG", "INFO", "WARNING", "ERROR", "CRITICAL"}

C14_Step ==
    (pc = "new" /\ pc' # "new")
    => /\ C14_Rejectable(config)
           => pc' = "failed" /\ outcome'.exc.type = "ValueError"
       /\ (~C14_Rejectable(config) /\ config.cache_ttl > 0
             /\ config.max_retries = 0 /\ config.retry_delay = 0)
           => pc' = "idle"
       /\ config' = config

\* C14: validate() raises when api_key or base_url is empty, timeout <= 0,
\* max_retries < 0, retry_delay < 0, max_connections <= 0,
\* max_keepalive_connections <= 0, keepalive_expiry <= 0 or log_level is not
\* one of the five levels; a configuration with max_retries = 0, retry_delay
\* = 0 and the other fields valid passes; no field is changed.
C14_ValidateConditions == [][C14_Step]_vars

\* a configuration with zero retries and zero delay was accepted
C14_Witness ==
    /\ pc = "idle"
    /\ validations = 1
    /\ config.max_retries = 0
    /\ config.retry_delay = 0

\* the configuration is valid in every field other than cache_ttl
C15_OthersValid == ~C14_Rejectable(config)

\* C15: validate() checks cache_ttl only when caching is enabled: once
\* constructed, a configuration with enable_caching and cache_ttl <= 0 has
\* been rejected, and one without enable_caching, with cache_ttl <= 0 and
\* every other field valid has been accepted.
C15_CacheTtlOnlyWhenCaching ==
    (pc # "new" /\ config.cache_ttl <= 0)
    => /\ config.enable_caching => pc = "failed"
       /\ (~config.enable_caching /\ C15_OthersValid) => pc # "failed"

\* ------------------------------------------------------------ request bodies
UpdateKeys == {"content", "importance", "metadata"}

\* the bodies sent by update_memory
UpdatesSent == {i \in 1..Len(sent) : sent[i].by.op = "update_memory"}

\* C16: every request update_memory sends is a PUT whose body holds exactly
\* the keys among content, importance and metadata whose argument is not None,
\* each with the argument's value, so with importance alone supplied the body
\* is {importance}; two updates with the same arguments send the same body.
C16_UpdateBody ==
    /\ \A i \in UpdatesSent :
          /\ sent[i].by.method = "PUT"
          /\ DOMAIN sent[i].json = {k \in UpdateKeys : sent[i].by.args[k] # None}
          /\ \A k \in DOMAIN sent[i].json : sent[i].json[k] = sent[i].by.args[k]
          /\ (sent[i].by.args.content = None /\ sent[i].by.args.metadata = None
                /\ sent[i].by.args.importance # None)
              => DOMAIN sent[i].json = {"importance"}
    /\ \A i, j \in UpdatesSent :
          sent[i].by.args = sent[j].by.args => sent[i].json = sent[j].json

\* two calls updated the importance alone, to zero, and sent the same body
C16_Witness ==
    \E i, j \in UpdatesSent :
       /\ sent[i].call = 1
       /\ sent[j].call = 2
       /\ sent[i].by.args = sent[j].by.args
       /\ sent[i].by.args.content = None
       /\ sent[i].by.args.metadata = None
       /\ sent[i].json = [k \in {"importance"} |-> "0"]
       /\ sent[j].json = sent[i].json

RequiredKeys == {"content", "agent_id", "memory_type", "importance"}

OptionalKeys == {"user_id", "session_id", "metadata"}

\* the bodies sent by add_memory
AddsSent == {i \in 1..Len(sent) : sent[i].by.op = "add_memory"}

\* C17 as stated: an optional key is in the body exactly when its argument is
\* not None.
C17_OptionalWhenNotNone ==
    \A i \in AddsSent :
       /\ RequiredKeys \subseteq DOMAIN sent[i].json
       /\ \A k \in OptionalKeys :
             k \in DOMAIN sent[i].json <=> sent[i].by.args[k] # None

\* C17: every body add_memory POSTs contains content, agent_id, memory_type and
\* importance with the arguments' values, whatever they are, and contains each
\* of user_id, session_id and metadata exactly when its argument is truthy:
\* supplied and neither the empty string nor the empty dict; hence only when
\* the caller supplied it.
C17_OptionalWhenTruthy ==
    \A i \in AddsSent :
       /\ sent[i].by.method = "POST"
       /\ DOMAIN sent[i].json \subseteq RequiredKeys \cup OptionalKeys
       /\ \A k \in RequiredKeys :
             k \in DOMAIN sent[i].json /\ sent[i].json[k] = sent[i].by.args[k]
       /\ \A k \in OptionalKeys :
             /\ k \in DOMAIN sent[i].json
                  <=> sent[i].by.args[k] \notin {None, "", "{}"}
             /\ k \in DOMAIN sent[i].json
                  => sent[i].by.args[k] # None
                     /\ sent[i].json[k] = sent[i].by.args[k]

\* an empty user_id and an empty metadata were left out, a session_id was sent
C17_Witness ==
    \E i \in AddsSent :
       /\ sent[i].by.args.user_id = ""
       /\ sent[i].by.args.metadata = "{}"
       /\ sent[i].by.args.session_id = "s1"
       /\ sent[i].by.args.content = ""
       /\ DOMAIN sent[i].json = RequiredKeys \cup {"session_id"}

\* ------------------------------------------------------------ tool claims
\* the words of the message in lower case
Lower(msg) == [i \in 1..Len(msg) |-> IF msg[i] = "Missing" THEN "missing" ELSE msg[i]]

\* the words of the phrase occur in the message, one after the other
Contains(msg, phrase) ==
    \E i \in 1..(Len(msg) - Len(phrase) + 1) :
       SubSeq(msg, i, i + Len(phrase) - 1) = phrase

\* the step is a call of execute
IsExecuteStep ==
    <<execution, invoked, escaped, ended, executed>>'
        # <<execution, invoked, escaped, ended, executed>>

C19_Step ==
    (IsExecuteStep /\ executed'.tool_name \notin DOMAIN tools)
    => /\ escaped' = NoException
       /\ execution'.tool_name = executed'.tool_name
       /\ execution'.status = "FAILED"
       /\ Contains(execution'.error, <<"not", "found">>)
       /\ invoked' = 0
       /\ UNCHANGED <<tools, handlers>>

\* C19: execute for a name that has no registered tool, because none was
\* registered under it or because it was unregistered, returns a ToolExecution
\* with status FAILED whose error contains "not found", and invokes no handler.
C19_UnregisteredNotFound == [][C19_Step]_vars

\* a tool that had been registered and unregistered was executed
C19_Witness ==
    /\ execution.status = "FAILED"
    /\ execution.tool_name = "calculator"
    /\ "calculator" \in removed
    /\ "calculator" \notin DOMAIN tools
    /\ execution.error = <<"Tool", "'", "calculator", "'", "not", "found">>
    /\ invoked = 0

\* the names of the required parameters of the schema the input lacks
C20_Lacking(schema, input_data) ==
    {schema.parameters[i].name : i \in {j \in 1..Len(schema.parameters) :
        /\ schema.parameters[j].required
        /\ schema.parameters[j].name \notin DOMAIN input_data}}

\* no required parameter before the i-th is lacking
C20_IsFirst(schema, input_data, name) ==
    \E i \in 1..Len(schema.parameters) :
       /\ schema.parameters[i].name = name
       /\ \A j \in 1..(i - 1) :
             schema.parameters[j].name \notin C20_Lacking(schema, input_data)

C20_Step ==
    (IsExecuteStep /\ executed'.tool_name \in DOMAIN tools)
    => LET schema == tools[executed'.tool_name]
           lacking == C20_Lacking(schema, executed'.input)
       IN /\ lacking # {}
             => /\ escaped' = NoException
                /\ execution'.status = "FAILED"
                /\ Contains(Lower(execution'.error), <<"missing">>)
                /\ \E name \in lacking :
                      /\ execution'.error[Len(execution'.error)] = name
                      /\ C20_IsFirst(schema, executed'.input, name)
                /\ invoked' = 0
          /\ (lacking = {} /\ escaped' = NoException)
             => ~Contains(execution'.error, <<"required", "parameter:">>)

\* C20: execute on a registered tool whose input lacks a required parameter
\* returns status FAILED with an error that contains "missing" (the message
\* is "Missing required parameter: <name>", matched without regard to case)
\* and names the first such parameter in schema order, without invoking the
\* handler; absent parameters with required=False do not fail the validation.
C20_MissingRequiredParameter == [][C20_Step]_vars

\* both required parameters were absent and the one the schema lists first,
\* b, was named
C20_Witness ==
    /\ execution.status = "FAILED"
    /\ execution.tool_name = "calculator"
    /\ "calculator" \in DOMAIN tools
    /\ tools["calculator"].parameters[1].name = "b"
    /\ DOMAIN execution.input = {}
    /\ execution.error = <<"Missing", "required", "parameter:", "b">>
    /\ invoked = 0

\* the handler execute looks up for the tool it was asked to run
C21_Handler == handlers[executed'.tool_name]

\* the handler was invoked and raised
C21_HandlerRaised ==
    /\ IsExecuteStep
    /\ executed'.tool_name \in DOMAIN tools
    /\ ended' = "raised"

\* C21: execute never raises to its caller: whatever the step, no exception
\* leaves it and the ToolExecution returned has status SUCCESS or FAILED; when
\* the handler raised, the status is FAILED and the error is the text of the
\* handler's exception.
C21_NeverRaises ==
    [][ /\ IsExecuteStep
           => /\ escaped' = NoException
              /\ execution'.status \in {"SUCCESS", "FAILED"}
        /\ C21_HandlerRaised
           => /\ execution'.status = "FAILED"
              /\ execution'.error # NoError
              /\ execution'.error = <<"boom">> ]_vars

\* the handler did not finish within the timeout that execute was given
C22_Overran ==
    /\ IsExecuteStep
    /\ executed'.tool_name \in DOMAIN tools
    /\ invoked' = 1
    /\ executed'.timeout # NoTimeout
    /\ handlers[executed'.tool_name].duration > executed'.timeout[1]

\* C22: when execute is given a timeout and the handler, synchronous or
\* asynchronous, does not finish within it, the result has status FAILED with
\* an error saying that the execution timed out, and never status SUCCESS.
C22_TimeoutEitherKind ==
    [][ C22_Overran
        => /\ escaped' = NoException
           /\ execution'.status = "FAILED"
           /\ execution'.status # "SUCCESS"
           /\ Contains(execution'.error, <<"timed", "out">>) ]_vars

C23_Step ==
    /\ (IsExecuteStep /\ ended' = "returned")
         => /\ escaped' = NoException
            /\ execution'.status = "SUCCESS"
            /\ execution'.output = "v"
            /\ execution'.error = NoError
            /\ execution'.duration_ms # <<>>
            /\ execution'.tool_name = executed'.tool_name
            /\ execution'.input = executed'.input
    /\ (IsExecuteStep /\ executed'.tool_name \in DOMAIN tools)
         => LET schema == tools[executed'.tool_name]
                handler == handlers[executed'.tool_name]
            IN (/\ C20_Lacking(schema, executed'.input) = {}
                /\ handler.params \ handler.optional \subseteq DOMAIN executed'.input
                /\ handler.behaviour = "returns"
                /\ executed'.timeout = NoTimeout)
               => ended' = "returned" /\ invoked' = 1

\* C23: execute on a registered tool, with every required parameter present
\* and a handler, synchronous or asynchronous, that returns "v", returns
\* status SUCCESS with output "v", error None and a duration_ms that is not
\* None.
C23_SuccessResult == [][C23_Step]_vars

\* an asynchronous handler returned its value
C23_Witness ==
    /\ executed.op = "execute"
    /\ executed.tool_name \in DOMAIN handlers
    /\ handlers[executed.tool_name].is_async
    /\ handlers[executed.tool_name].behaviour = "returns"
    /\ ended = "returned"
    /\ execution.status = "SUCCESS"
    /\ execution.output = "v"

\* the step is a call of a registry method
IsRegistryStep == <<returned, tools, handlers>>' # <<returned, tools, handlers>>

\* the number of positions of the list that hold x
Occurrences(q, x) == Cardinality({i \in DOMAIN q : q[i] = x})

C24_Step ==
    IsRegistryStep
    => /\ returned'.op = "register_tool"
          => /\ DOMAIN tools' = DOMAIN tools \cup {returned'.name}
             /\ tools'[returned'.name] = returned'.schema
             /\ handlers'[returned'.name] = returned'.handler
             /\ \A n \in DOMAIN tools \ {returned'.name} :
                   tools'[n] = tools[n] /\ handlers'[n] = handlers[n]
       /\ returned'.op = "unregister_tool"
          => /\ returned'.ok <=> returned'.name \in DOMAIN tools
             /\ returned'.ok
                => /\ tools' = Pop(tools, returned'.name)
                   /\ handlers' = Pop(handlers, returned'.name)
             /\ ~returned'.ok => UNCHANGED <<tools, handlers>>
       /\ returned'.op = "get_tool"
          => /\ UNCHANGED <<tools, handlers>>
             /\ returned'.name \notin DOMAIN tools => returned'.found = <<>>
             /\ returned'.name \in DOMAIN tools
                => returned'.found = <<tools[returned'.name]>>
             /\ (returned.op = "register_tool" /\ returned.name = returned'.name)
                => returned'.found = <<returned.schema>>
             /\ (returned.op = "unregister_tool" /\ returned.name = returned'.name)
                => returned'.found = <<>>
       /\ returned'.op = "list_tools"
          => /\ UNCHANGED <<tools, handlers>>
             /\ Len(returned'.list) = Cardinality(DOMAIN tools)
             /\ \A n \in DOMAIN tools : Occurrences(returned'.list, tools[n]) = 1
             /\ returned.op = "register_tool"
                => Occurrences(returned'.list, returned.schema) = 1

\* C24: a new ToolExecutor has no tools; register_tool(schema, h) makes
\* schema.name map to that schema and handler, replacing what the name had,
\* so that get_tool returns the schema and list_tools holds it exactly once;
\* unregister_tool returns True and removes the tool exactly when the name was
\* registered, and returns False without changing the registry otherwise;
\* get_tool of a name that is not registered returns None.
C24_Registry == tools = EmptyMap /\ handlers = EmptyMap /\ [][C24_Step]_vars

\* both tools are listed, the calculator after it was removed and registered
\* again
C24_Witness ==
    /\ returned.op = "list_tools"
    /\ Len(returned.list) = 2
    /\ "calculator" \in removed
    /\ DOMAIN tools = {"calculator", "echo"}

\* ------------------------------------------------------------ metrics claims
\* The label set of a dict: its items without their order.
LabelSet(labels) == {labels[i] : i \in DOMAIN labels}

\* The recording calls since construction or the last reset.
LastReset ==
    LET resets == {i \in DOMAIN recorded : recorded[i].op = "reset"}
    IN IF resets = {} THEN 0 ELSE CHOOSE i \in resets : \A j \in resets : j <= i

SinceReset == {i \in DOMAIN recorded : i > LastReset}

\* The calls of one operation since the last reset that address (name, labels).
CallsFor(op, a) ==
    {i \in SinceReset : /\ recorded[i].op = op
                        /\ recorded[i].name = a[1]
                        /\ LabelSet(recorded[i].labels) = LabelSet(a[2])}

RECURSIVE SumValues(_)
SumValues(indices) ==
    IF indices = {} THEN 0
    ELSE LET i == CHOOSE j \in indices : TRUE
         IN recorded[i].value + SumValues(indices \ {i})

LastValue(indices) ==
    IF indices = {} THEN 0
    ELSE recorded[CHOOSE i \in indices : \A j \in indices : j <= i].value

\* C25: get_counter(name, labels) is the sum of the values incremented for
\* that name and label set since construction or the last reset, 0 when there
\* were none; get_gauge(name, labels) is the value of the most recent
\* set_gauge for it, 0 when there was none.
C25_CountersAndGauges ==
    \A a \in Addresses :
        /\ GetCounter(a[1], a[2]) = SumValues(CallsFor("increment", a))
        /\ GetGauge(a[1], a[2]) = LastValue(CallsFor("set_gauge", a))

\* The three reads of one metric.
Reads(a) ==
    <<GetCounter(a[1], a[2]), GetGauge(a[1], a[2]), GetHistogramStats(a[1], a[2])>>

IsRecordingStep ==
    /\ recorded' # recorded
    /\ recorded'[Len(recorded')].op \in {"increment", "set_gauge", "record_histogram"}

\* C26: an increment, gauge set or histogram sample for one label set leaves
\* what is read for every other label set of the name, and for the unlabeled
\* name, as it was; the same labels in another insertion order address the
\* same metric.
C26_Step ==
    IsRecordingStep =>
        LET r == recorded'[Len(recorded')]
        IN \A b \in Addresses :
              LabelSet(b[2]) # LabelSet(r.labels) => Reads(b)' = Reads(b)

C26_Independent ==
    /\ [](Reads(<<PlainName, LabelsAB>>) = Reads(<<PlainName, LabelsBA>>))
    /\ [][C26_Step]_vars

\* The calls of one operation since the last reset whose key is that of
\* (name, labels).
KeyCalls(op, a) ==
    {i \in SinceReset :
        /\ recorded[i].op = op
        /\ MakeKey(recorded[i].name, recorded[i].labels) = MakeKey(a[1], a[2])}

NoMetrics == [counters |-> EmptyMap, gauges |-> EmptyMap, histograms |-> EmptyMap]

\* C27: right after reset() get_metrics() has no counters, gauges or
\* histograms, and at any time every counter, gauge and histogram count is
\* what the calls since the last reset alone make it: 0 when there were none.
C27_Reset ==
    /\ (recorded # <<>> /\ LastReset = Len(recorded)) => GetMetrics = NoMetrics
    /\ \A a \in Addresses :
          /\ GetCounter(a[1], a[2]) = SumValues(KeyCalls("increment", a))
          /\ GetGauge(a[1], a[2]) = LastValue(KeyCalls("set_gauge", a))
          /\ GetHistogramStats(a[1], a[2]).count
                = Cardinality(KeyCalls("record_histogram", a))

\* A counter that had a value is reset and incremented again: it holds the
\* later value alone.
C27_Witness ==
    /\ Len(recorded) = 3
    /\ recorded[1].op = "increment"
    /\ recorded[2].op = "reset"
    /\ recorded[3].op = "increment"
    /\ recorded[3].name = recorded[1].name
    /\ recorded[3].labels = recorded[1].labels
    /\ GetCounter(recorded[3].name, recorded[3].labels) = recorded[3].value

\* a <= b for floats
Leq(a, b) ==
    Aligned(a, LowerExponent(a, b)) <= Aligned(b, LowerExponent(a, b))

SampleValues(a) == {recorded[i].value : i \in KeyCalls("record_histogram", a)}

NoStats ==
    [count |-> 0, sum |-> Zero, min |-> Zero, max |-> Zero, avg |-> Zero,
     p50 |-> Zero, p95 |-> Zero, p99 |-> Zero]

\* C28 without the order of the percentiles: the count, the least and the
\* greatest sample, the average as the sum over the count, the percentiles of
\* a single sample, and the zeros of an empty histogram.
C28_Fields ==
    \A a \in HistAddresses :
        LET n == Cardinality(KeyCalls("record_histogram", a))
            stats == GetHistogramStats(a[1], a[2])
            values == SampleValues(a)
        IN /\ n = 0 => stats = NoStats
           /\ n >= 1 =>
                /\ stats.count = n
                /\ stats.min = FromInt(CHOOSE v \in values : \A w \in values : v <= w)
                /\ stats.max = FromInt(CHOOSE v \in values : \A w \in values : w <= v)
                /\ stats.avg = Div(stats.sum, n)
           /\ n = 1 =>
                /\ stats.p50 = stats.min
                /\ stats.p95 = stats.min
                /\ stats.p99 = stats.min
                /\ stats.max = stats.min

\* C28: get_histogram_stats over the n >= 1 samples of a key returns their
\* count, least and greatest sample and average, and percentiles with
\* min <= p50 <= p95 <= p99 <= max; with no samples every field is 0.
C28_Statistics ==
    /\ C28_Fields
    /\ \A a \in HistAddresses :
          LET stats == GetHistogramStats(a[1], a[2])
          IN /\ Leq(stats.min, stats.p50)
             /\ Leq(stats.p50, stats.p95)
             /\ Leq(stats.p95, stats.p99)
             /\ Leq(stats.p99, stats.max)

\* ------------------------------------------------------------ retry, then a response
\* The call has ended on a response that came after at least one attempt
\* failed at the transport level.
RespondedAfterFailures ==
    /\ pc = "done"
    /\ Len(log) >= 2
    /\ IsResponse(LastReceived)
    /\ \A i \in 1..(Len(log) - 1) : ~IsResponse(log[i])

\* What the call does with the response is what a first attempt does with it,
\* one attempt was made for every failure and one for the response, and no
\* NetworkError is raised.
C29_AsOnFirstAttempt ==
    RespondedAfterFailures
    => /\ outcome = HandleResponse(LastReceived.status, LastReceived.body)
       /\ attempts = Len(log)
       /\ Len(log) <= config.max_retries + 1
       /\ ~(outcome.kind = "raise" /\ outcome.exc.type = "NetworkError")

\* C29: when attempts 0..k-1 fail at the transport level and attempt k
\* receives a response, the call ends with that response's outcome: the
\* decoded result for 200, cached when the request is cache-eligible, and the
\* classified error for any other status; it has made k+1 attempts and reports
\* none of the earlier failures.
C29_RetryThenResponse ==
    RespondedAfterFailures
    => LET s == LastReceived.status
           b == LastReceived.body
           raises(t) == outcome.kind = "raise" /\ outcome.exc.type = t
       IN /\ attempts = Len(log)
          /\ IF s = 200
             THEN /\ outcome.kind = "return"
                  /\ outcome.value = Json(b)
                  /\ (CacheEligible(req) /\ config.enable_caching)
                        => /\ KeyOf(req) \in DOMAIN cache
                           /\ cache[KeyOf(req)] = outcome.value
             ELSE IF s = 401 THEN raises("AuthenticationError")
             ELSE IF s = 400 THEN raises("ValidationError")
             ELSE IF s = 404 THEN raises("NotFoundError")
             ELSE IF s = 429 THEN raises("RateLimitError")
             ELSE IF s >= 500 THEN raises("ServerError")
             ELSE raises("AgentMemError")

\* ------------------------------------------------------------ reads, writes and the cache
WriteOps ==
    {"add_memory", "update_memory", "delete_memory", "search_memories",
     "batch_add_memories"}

ReadOps == {"get_memory", "get_memory_stats", "health_check", "get_metrics"}

\* The cache holds, for the request r, an entry younger than cache_ttl.
HeldFor(r) ==
    /\ config.enable_caching
    /\ KeyOf(r) \in DOMAIN cache
    /\ KeyOf(r) \in DOMAIN cache_timestamps
    /\ now - cache_timestamps[KeyOf(r)] < config.cache_ttl

\* C30: a write operation (add, update, delete, search, batch add) leaves both
\* cache maps as they are from its start to its end and starts with a
\* transport attempt; the four read operations are cache-eligible; and a
\* get_memory(id) that starts while the cache holds, within the TTL, the
\* result of an earlier read returns that result without a transport attempt,
\* whatever was updated or deleted in between.
C30_Step ==
    /\ ("op" \in DOMAIN req /\ req.op \in WriteOps)
          => cache' = cache /\ cache_timestamps' = cache_timestamps
    /\ (IsCallStep /\ req'.op \in WriteOps)
          => /\ ~(req'.method = "GET" /\ req'.use_cache)
             /\ cache' = cache /\ cache_timestamps' = cache_timestamps
             /\ pc' = "request" /\ attempts' = 1
    /\ (IsCallStep /\ req'.op \in ReadOps) => req'.method = "GET" /\ req'.use_cache
    /\ (IsCallStep /\ req'.op = "get_memory" /\ HeldFor(req'))
          => /\ pc' = "done" /\ attempts' = 0
             /\ outcome' = Returned(lastOK[KeyOf(req')].value)
             /\ cache' = cache /\ cache_timestamps' = cache_timestamps

C30_WritesLeaveCache == [][C30_Step]_vars

\* get_memory("m1") returned the old memory through the transport, then
\* update_memory("m1") succeeded, time passed, and a third call, get_memory("m1"),
\* has returned the old memory without a transport attempt.
C30_Witness ==
    /\ calls = 3
    /\ pc = "done"
    /\ req.op = "get_memory"
    /\ attempts = 0
    /\ outcome = Returned("{id:m1,content:old}")
    /\ Len(completed) = 2
    /\ completed[1].op = "get_memory"
    /\ completed[2].op = "update_memory"
    /\ completed[2].endpoint = req.endpoint
    /\ completed[2].ok
    /\ now > lastOK[KeyOf(req)].at

\* ------------------------------------------------------------ attempt budget
FallThrough == Exc("AgentMemError", <<"Request failed after all retries">>)

\* C31: a call makes at most max_retries + 1 transport attempts; a call that
\* ends without any attempt was answered from the cache; and no call ends with
\* the fall-through error "Request failed after all retries".
C31_AttemptBudget ==
    /\ attempts <= config.max_retries + 1
    /\ (pc = "done" /\ attempts = 0)
          => /\ outcome.kind = "return"
             /\ req.method = "GET" /\ req.use_cache /\ config.enable_caching
    /\ (pc = "done" /\ outcome.kind = "raise") => outcome.exc # FallThrough

\* with max_retries = 0 the loop ran once, the attempt failed at the transport
\* level, and the call ended with the recorded NetworkError
C31_Witness ==
    /\ pc = "done"
    /\ config.max_retries = 0
    /\ attempts = 1
    /\ AllFailed
    /\ outcome.kind = "raise"
    /\ outcome.exc.type = "NetworkError"
    /\ sleeps = <<>>

\* ------------------------------------------------------------ no sliding expiry
\* C32: an entry's timestamp is the time of the last 200 response stored for
\* its key, whatever hits came after; a hit leaves both maps as they are; an
\* identical call made cache_ttl or more after that response is a miss and
\* issues a transport attempt; and a 200 response to it stores its result and
\* the current time.
C32_Step ==
    /\ (IsCallStep /\ pc' = "done")
          => cache' = cache /\ cache_timestamps' = cache_timestamps
    /\ (IsCallStep /\ KeyOf(req') \in DOMAIN lastOK
            /\ now - lastOK[KeyOf(req')].at >= config.cache_ttl)
          => pc' = "request" /\ attempts' = 1
    /\ (pc = "request" /\ pc' = "done" /\ outcome'.kind = "return")
          => /\ cache'[KeyOf(req)] = outcome'.value
             /\ cache_timestamps'[KeyOf(req)] = now

C32_NoSlidingExpiry ==
    /\ [](\A k \in DOMAIN cache_timestamps :
             k \in DOMAIN lastOK /\ cache_timestamps[k] = lastOK[k].at)
    /\ [][C32_Step]_vars

\* a read through the transport, a hit, and at cache_ttl = 2 after the first
\* read a third identical call that went to the transport and stored the new
\* memory at the current time
C32_Witness ==
    /\ calls = 3
    /\ pc = "done"
    /\ config.cache_ttl = 2
    /\ Len(completed) = 2
    /\ completed[1].ok /\ completed[1].attempts = 1
    /\ completed[2].ok /\ completed[2].attempts = 0
    /\ attempts = 1
    /\ outcome = Returned("{id:m1,content:new}")
    /\ cache[KeyOf(req)] = "{id:m1,content:new}"
    /\ cache_timestamps[KeyOf(req)] = 2
    /\ now = 2

\* ------------------------------------------------------------ hits and the handle
\* C33: a call answered from the cache by a client that holds no connection
\* handle leaves it without one and creates none.
C33_Step ==
    (IsCallStep /\ pc' = "done" /\ client = None)
        => client' = None /\ session_created' = session_created /\ created' = created

C33_HitNeedsNoHandle == [][C33_Step]_vars

\* ------------------------------------------------------------ whose entry a hit reads
\* C34: a call answered from the cache returns the value that the last 200
\* response stored under its key, and the request of that response had the
\* same path and the same parameter set.
C34_Step ==
    (IsCallStep /\ pc' = "done")
        => LET stored == lastOK[KeyOf(req')]
           IN /\ outcome' = Returned(stored.value)
              /\ stored.by.method = "GET"
              /\ stored.by.endpoint = req'.endpoint
              /\ SameItems(stored.by.params, req'.params)

C34_OwnEntryOnly == [][C34_Step]_vars

\* ------------------------------------------------------------ histograms of get_metrics
\* the record_histogram calls since the last reset that name the histogram n,
\* under any labels
NameCalls(n) ==
    UNION {KeyCalls("record_histogram", a) : a \in {b \in HistAddresses : b[1] = n}}

\* C37: every histogram name with at least one recorded sample, with or
\* without labels, has an entry in get_metrics()["histograms"] whose count is
\* at least 1 and whose count, least and greatest value are those of the
\* samples recorded under that name.
C37_EveryHistogramListed ==
    \A n \in {a[1] : a \in HistAddresses} :
        LET values == {recorded[i].value : i \in NameCalls(n)}
        IN NameCalls(n) # {} =>
              /\ n \in DOMAIN GetMetrics.histograms
              /\ GetMetrics.histograms[n].count >= 1
              /\ GetMetrics.histograms[n].count = Cardinality(NameCalls(n))
              /\ GetMetrics.histograms[n].min =
                     FromInt(CHOOSE v \in values : \A w \in values : v <= w)
              /\ GetMetrics.histograms[n].max =
                     FromInt(CHOOSE v \in values : \A w \in values : w <= v)

\* ------------------------------------------------------------ the two maps of the cache
\* C38: in every reachable state of a client the value map and the timestamp
\* map have the same set of keys.
C38_SameKeys == DOMAIN cache = DOMAIN cache_timestamps

\* a result was stored under a key, and a later lookup has evicted the entry
C38_Witness ==
    /\ config.enable_caching
    /\ \E k \in DOMAIN lastOK : k \notin DOMAIN cache /\ k \notin DOMAIN cache_timestamps

\* ------------------------------------------------------------ schemas and handlers
C39_Step ==
    IsExecuteStep
    => /\ UNCHANGED <<tools, handlers>>
       /\ executed'.tool_name \in DOMAIN tools
            => /\ executed'.tool_name \in DOMAIN handlers
               /\ (escaped' = NoException /\ execution'.status = "FAILED")
                    => execution'.error # NotFoundMessage(executed'.tool_name)

\* C39: after any sequence of register_tool, unregister_tool and execute
\* calls the names that have a schema are the names that have a handler;
\* execute on a listed tool finds its handler and does not report the tool as
\* not found, and execute leaves both maps as they are.
C39_RegistryInStep ==
    /\ [](DOMAIN tools = DOMAIN handlers)
    /\ [][C39_Step]_vars

\* a tool that was unregistered and registered again has been executed, and
\* its handler was invoked
C39_Witness ==
    /\ "calculator" \in removed
    /\ "calculator" \in DOMAIN tools
    /\ "calculator" \in DOMAIN handlers
    /\ executed # NoCall
    /\ executed.tool_name = "calculator"
    /\ invoked = 1

\* ------------------------------------------------------------ concurrent calls
\* C35: under any interleaving of concurrent _make_request calls on one
\* client, at most one connection handle has been created while none has been
\* closed, every cached key has a value and a timestamp, and the value and
\* the timestamp are those a 200 response to a request of that key stored.
C35_OneHandleOneCache ==
    /\ released = {} => created <= 1
    /\ DOMAIN cache = DOMAIN cache_timestamps
    /\ \A k \in DOMAIN cache :
          /\ k \in DOMAIN lastOK
          /\ KeyOf(lastOK[k].by) = k
          /\ cache[k] = lastOK[k].value
          /\ cache_timestamps[k] = lastOK[k].at

\* two calls ran at once on one handle: one has stored its result, the other
\* is suspended in its retry
C35_Witness ==
    /\ created = 1
    /\ released = {}
    /\ DOMAIN cache # {}
    /\ \E t, u \in Tasks :
          /\ tasks[t].pc = "done"
          /\ tasks[t].outcome.kind = "return"
          /\ tasks[u].pc = "request"
          /\ tasks[u].attempt = 1

\* C36: every attempt after the first of a request that was in progress when
\* close() ran is issued on a handle that is open at the time of the attempt.
C36_LaterAttemptsOnOpenHandle ==
    \A i \in issued : i.attempt > 0 => i.open

====
